---------------------------- MODULE Spec2Model ----------------------------
(***************************************************************************)
(* Model of the real-time core of Wawelet-Online: the ring buffer          *)
(* (core/ring_buffer.py), the logical clock (core/realtime_clock.py), the  *)
(* signal engine (signal/signal_engine.py) with its components, and the    *)
(* generation and analysis loops (ui/main_window.py).                      *)
(*                                                                         *)
(* Python indices are 0-based and TLA+ sequences 1-based: the cell the     *)
(* code calls buf[i] is buf[i + 1] here; cursors keep the code's 0-based   *)
(* values.  Samples are integers (every integer of the model is exactly    *)
(* representable in float32, so the dtype casts keep them).                *)
(***************************************************************************)
EXTENDS Integers, Sequences, FiniteSets, TLC

\* ------------------------------------------------------------------ bounds
\* RingBuffer(capacity): the constructor's argument.
Capacity == 3
\* Longest batch one append call is given (above Capacity: the overflow branch).
MaxBatch == 4
\* Samples appended to the ring over a run of the ring specification.
MaxTotal == 6
\* MAX_CHUNK (signal_engine.py:10) is 131072 in the source; the model keeps the
\* preallocated chunk buffer at a size that can be enumerated.
MAX_CHUNK == 3
\* Component objects constructed over a run.
MaxObjs == 2
\* generate_chunk is called while the clock lies within +-MaxSamples.
MaxSamples == 3
MaxQueue == 2
\* RingBuffer objects constructed over a run.
MaxRings == 3
\* generate calls made on a tone on its own.
MaxGenerates == 3

\* main_window.py:97 and :119: the analysis window's upper and lower limits.
MAX_WAVELET_SAMPLES == 4194304
MinWindow == 16

\* Values the engine's API is given.
FsSet == {2, 4}
ChunkSet == {0 - 1, 2, MAX_CHUNK + 1}
ClipSet == {0 - 1, 0, 1}
LevelSet == {1, 2}
Kinds == {"sine", "noise"}

VARIABLES
  \* RingBuffer fields (ring_buffer.py:7-11)
  buf, write, filled, ringHolders,
  \* the thread that appends and clears (the UI thread): position and argument
  upc, ux,
  \* the thread that reads (the analysis worker): position, argument n, result
  wpc, rn, rres,
  \* history: the samples appended since construction or the last clear, and
  \* the number of samples ever appended (sample k of a run carries value k)
  hist, total,
  \* SignalEngine fields (signal_engine.py:14-24); components holds object
  \* identities, heap the component objects (their state and parameters)
  fs, chunk_size, amplitude_clip, paused, components, heap, chunk_buf,
  \* RealtimeClock._samples (realtime_clock.py:9)
  samples,
  \* the thread inside generate_chunk: position, the configuration captured
  \* under the lock, the other locals, and the value returned
  gpc, cap, loc, ret,
  \* GeneratorWorker._running and WaveletWorker._running; the generation
  \* loop's locals (fs, n); the chunk_ready signals queued for the UI thread;
  \* MainWindow._latest_chunk and _latest_fs
  gen_running, wav_running, lg, chunkq, latest_chunk, latest_fs,
  \* ParamsModel._data, PluginManager.wavelet_plugins (its keys), and what the
  \* analysis iteration in progress has published
  params, registry, wpub,
  \* the analysis iteration's locals: the snapshot snap and the looked-up info
  wsnap, winfo,
  \* PluginManager.reload_all in the UI thread: its position, the candidate
  \* modules it was given, the index of the one in hand, and the log
  ppc, pcands, pidx, plog,
  \* sys.modules: the namespaces of the plugin modules imported so far
  sysmods,
  \* SignalEngine._lock (the set of its holders); a control call of the UI
  \* thread that is run step by step: its position and arguments; the result
  \* of another thread's snapshot_components
  elock, epc, earg, snapres,
  \* ParamsModel._lock (the set of its holders); the thread inside
  \* snapshot(): its position and the dict it is building; the dicts that
  \* snapshot() has returned, as their holders see them
  plock, spc, scopy, sret,
  \* RealtimeClock._lock (the set of its holders); the threads inside a
  \* method of the clock: positions and locals; the sum of the arguments of
  \* the advance calls that returned since the last reset
  clock_lock, cpc, cloc, csum,
  \* a call of a component's generate on its own: arguments and result
  garg, gres,
  \* a call of a built-in plugin's transform on its own: arguments and result
  targ, tres,
  \* the RingBuffer objects constructed so far; the one MainWindow.ring names
  \* and the one WaveletWorker.ring names; the one the worker's last get_last
  \* was called on; on_global_changed in the UI thread: position, arguments
  rings, mw_ring, ww_ring, wring, hpc, harg,
  \* a SineComponent on its own: its state (enabled, params), _cur and
  \* _target, and the number of generate calls made on it; the thread inside
  \* its generate: position, locals, and (history) _cur as the call found it
  \* and whether an update_params stored anything during the call
  tone, tgen,
  \* for each thread, the method it is inside of and how far it has come in
  \* that method's lockings
  lk

ringVars == <<buf, write, filled, ringHolders, upc, ux, wpc, rn, rres, hist, total>>
engVars == <<fs, chunk_size, amplitude_clip, paused, components, heap, chunk_buf, samples>>
genVars == <<gpc, cap, loc, ret>>
loopVars == <<gen_running, wav_running, lg, chunkq, latest_chunk, latest_fs,
              params, registry, wpub>>
wavVars == <<wsnap, winfo>>
plugVars == <<ppc, pcands, pidx, plog, sysmods>>
elockVars == <<elock, epc, earg, snapres>>
parVars == <<plock, spc, scopy, sret>>
clkVars == <<clock_lock, cpc, cloc, csum>>
cmpVars == <<garg, gres>>
trVars == <<targ, tres>>
rbVars == <<rings, mw_ring, ww_ring, wring, hpc, harg>>
moreVars == <<rbVars, tone, tgen, lk>>
unitVars == <<parVars, clkVars, cmpVars, trVars, moreVars>>
appVars == <<engVars, genVars, loopVars, wavVars, plugVars, elockVars>>
nonRingVars == <<appVars, unitVars>>
vars == <<ringVars, appVars, unitVars>>

\* ----------------------------------------------------------------- helpers
Min(a, b) == IF a <= b THEN a ELSE b
Max(a, b) == IF a >= b THEN a ELSE b

\* np.zeros(n)
Zeros(n) == [i \in 1..n |-> 0]

\* Python s[i:j] for 0 <= i, 0 <= j (clamped to the length, empty when j <= i).
Slice(s, i, j) == SubSeq(s, i + 1, Min(j, Len(s)))

\* Python s[-k:] for k > 0: the last k elements (all of s when k >= len(s)).
LastK(s, k) == SubSeq(s, Max(Len(s) - k, 0) + 1, Len(s))

\* Python b[start:start+len(xs)] = xs  (slice assignment, same length).
WriteAt(b, start, xs) ==
  [i \in 1..Len(b) |->
     IF i > start /\ i <= start + Len(xs) THEN xs[i - start] ELSE b[i]]

\* The thread identities that take the ring's mutex.
GEN == "gen"
T2 == "t2"
UI == "ui"
WAV == "wav"

\* ------------------------------------------------------------- RingBuffer
\* Mutant: get_last reads without taking the lock.
RingCanEnterReaderUnlocked(t) == t = WAV \/ ringHolders = {}

\* `with self._lock` entered by thread t (blocks while another holds it).
RingCanEnter(t) == ringHolders = {}

\* Mutant: the overflow branch keeps the first `capacity` samples, x[:capacity].
BufOverflowFirst(x) == Slice(x, 0, Capacity)

\* append, line 26: self._buf[:] = x[-self.capacity:]
BufOverflow(x) == LastK(x, Capacity)

\* append, lines 31-37: the head part, written at the cursor.
BufHead(b, w, x) ==
  LET end == w + Len(x) IN
  IF end <= Capacity
  THEN WriteAt(b, w, x)
  ELSE WriteAt(b, w, Slice(x, 0, Capacity - w))

\* append, line 37: the tail part, written at the start of storage.
BufTail(b, w, x) == WriteAt(b, 0, Slice(x, Capacity - w, Len(x)))

\* Mutant: the cursor is not wrapped.
WriteAfterNoWrap(w, n) == w + n

\* append, line 38
WriteAfter(w, n) == (w + n) % Capacity

\* append, line 39
FilledAfter(f, n) == Min(Capacity, f + n)

\* Mutant: the request is not cut down to the filled count.
GetLastNoClamp(b, w, f, n0) ==
  LET n == n0 IN
  IF n <= 0 THEN << >>
  ELSE LET start == (w - n) % Capacity IN
       IF start < w
       THEN Slice(b, start, w)
       ELSE Slice(b, start, Capacity) \o Slice(b, 0, w)

\* Mutant: the contiguous case is taken when start <= write.
GetLastLe(b, w, f, n0) ==
  LET n == Min(n0, f) IN
  IF n <= 0 THEN << >>
  ELSE LET start == (w - n) % Capacity IN
       IF start <= w
       THEN Slice(b, start, w)
       ELSE Slice(b, start, Capacity) \o Slice(b, 0, w)

\* get_last, lines 44-50, on the fields as they are read.
GetLast(b, w, f, n0) ==
  LET n == Min(n0, f) IN
  IF n <= 0 THEN << >>
  ELSE LET start == (w - n) % Capacity IN
       IF start < w
       THEN Slice(b, start, w)
       ELSE Slice(b, start, Capacity) \o Slice(b, 0, w)

\* The batch an append call is given: n fresh samples, numbered on from total.
Batch(n) == [i \in 1..n |-> total + i]

\* append, lines 19-24: n == 0 returns at once; otherwise the lock is taken.
AppendCall(n) ==
  /\ upc = "idle"
  /\ total + n <= MaxTotal
  /\ ux' = Batch(n)
  /\ total' = total + n
  /\ upc' = IF n = 0 THEN "idle" ELSE "A24"
  /\ UNCHANGED <<buf, write, filled, ringHolders, wpc, rn, rres, hist>>
  /\ UNCHANGED nonRingVars

AppendLock ==
  /\ upc = "A24"
  /\ RingCanEnter(UI)
  /\ ringHolders' = ringHolders \cup {UI}
  /\ upc' = "A25"
  /\ UNCHANGED <<buf, write, filled, ux, wpc, rn, rres, hist, total>>
  /\ UNCHANGED nonRingVars

\* lines 25-26 (overflow), 31-33 (fits) or 31-36 (wraps: head part)
AppendStore ==
  /\ upc = "A25"
  /\ IF Len(ux) >= Capacity
     THEN buf' = BufOverflow(ux) /\ upc' = "A27"
     ELSE /\ buf' = BufHead(buf, write, ux)
          /\ upc' = IF write + Len(ux) <= Capacity THEN "A38" ELSE "A37"
  /\ UNCHANGED <<write, filled, ringHolders, ux, wpc, rn, rres, hist, total>>
  /\ UNCHANGED nonRingVars

\* line 27
AppendOverflowCursor ==
  /\ upc = "A27"
  /\ write' = 0
  /\ upc' = "A28"
  /\ UNCHANGED <<buf, filled, ringHolders, ux, wpc, rn, rres, hist, total>>
  /\ UNCHANGED nonRingVars

\* line 28
AppendOverflowFilled ==
  /\ upc = "A28"
  /\ filled' = Capacity
  /\ upc' = "A29"
  /\ UNCHANGED <<buf, write, ringHolders, ux, wpc, rn, rres, hist, total>>
  /\ UNCHANGED nonRingVars

\* line 37
AppendStoreTail ==
  /\ upc = "A37"
  /\ buf' = BufTail(buf, write, ux)
  /\ upc' = "A38"
  /\ UNCHANGED <<write, filled, ringHolders, ux, wpc, rn, rres, hist, total>>
  /\ UNCHANGED nonRingVars

\* line 38
AppendCursor ==
  /\ upc = "A38"
  /\ write' = WriteAfter(write, Len(ux))
  /\ upc' = "A39"
  /\ UNCHANGED <<buf, filled, ringHolders, ux, wpc, rn, rres, hist, total>>
  /\ UNCHANGED nonRingVars

\* line 39
AppendFilled ==
  /\ upc = "A39"
  /\ filled' = FilledAfter(filled, Len(ux))
  /\ upc' = "A29"
  /\ UNCHANGED <<buf, write, ringHolders, ux, wpc, rn, rres, hist, total>>
  /\ UNCHANGED nonRingVars

\* leaving the with block (line 29, or the end of the method)
AppendUnlock ==
  /\ upc = "A29"
  /\ ringHolders' = ringHolders \ {UI}
  /\ hist' = hist \o ux
  /\ upc' = "idle"
  /\ UNCHANGED <<buf, write, filled, ux, wpc, rn, rres, total>>
  /\ UNCHANGED nonRingVars

\* clear, line 14
ClearLock ==
  /\ upc = "idle"
  /\ RingCanEnter(UI)
  /\ ringHolders' = ringHolders \cup {UI}
  /\ upc' = "C15"
  /\ UNCHANGED <<buf, write, filled, ux, wpc, rn, rres, hist, total>>
  /\ UNCHANGED nonRingVars

\* line 15
ClearStore ==
  /\ upc = "C15"
  /\ buf' = Zeros(Capacity)
  /\ upc' = "C16"
  /\ UNCHANGED <<write, filled, ringHolders, ux, wpc, rn, rres, hist, total>>
  /\ UNCHANGED nonRingVars

\* line 16
ClearCursor ==
  /\ upc = "C16"
  /\ write' = 0
  /\ upc' = "C17"
  /\ UNCHANGED <<buf, filled, ringHolders, ux, wpc, rn, rres, hist, total>>
  /\ UNCHANGED nonRingVars

\* line 17, and leaving the with block
ClearFilled ==
  /\ upc = "C17"
  /\ filled' = 0
  /\ ringHolders' = ringHolders \ {UI}
  /\ hist' = << >>
  /\ upc' = "idle"
  /\ UNCHANGED <<buf, write, ux, wpc, rn, rres, total>>
  /\ UNCHANGED nonRingVars

\* get_last(n), lines 41-43
GetLastCall(n) ==
  /\ wpc = "idle"
  /\ rn' = n
  /\ wpc' = "R43"
  /\ UNCHANGED <<buf, write, filled, ringHolders, upc, ux, rres, hist, total>>
  /\ UNCHANGED nonRingVars

GetLastLock ==
  /\ wpc = "R43"
  /\ RingCanEnter(WAV)
  /\ ringHolders' = ringHolders \cup {WAV}
  /\ wpc' = "R44"
  /\ UNCHANGED <<buf, write, filled, upc, ux, rn, rres, hist, total>>
  /\ UNCHANGED nonRingVars

\* lines 44-50: the result (a copy) is built inside the with block
GetLastRead ==
  /\ wpc = "R44"
  /\ rres' = GetLast(buf, write, filled, rn)
  /\ wpc' = "R50"
  /\ UNCHANGED <<buf, write, filled, ringHolders, upc, ux, rn, hist, total>>
  /\ UNCHANGED nonRingVars

\* leaving the with block and returning to the caller
GetLastReturn ==
  /\ wpc = "R50"
  /\ ringHolders' = ringHolders \ {WAV}
  /\ wpc' = "idle"
  /\ UNCHANGED <<buf, write, filled, upc, ux, rn, rres, hist, total>>
  /\ UNCHANGED nonRingVars

\* __init__, lines 7-11
RingInit ==
  /\ buf = Zeros(Capacity)
  /\ write = 0
  /\ filled = 0
  /\ ringHolders = {}
  /\ hist = << >>
  /\ total = 0

\* ------------------------------------------------------------ components
\* signal/components/__init__.py:7-13: the kinds of component.
BUILTIN_COMPONENTS == {"noise", "sine", "rect_pulse", "gauss_pulse", "chirp"}

\* The keys of a kind's schema (sine.py:9-67, noise.py:9-45,
\* rect_pulse.py:9-56, gauss_pulse.py:9-57, chirp.py:10-68).
SchemaKeys(kind) ==
  CASE kind = "sine" -> {"amplitude", "frequency", "phase", "dc", "smooth_ms"}
    [] kind = "noise" -> {"mean", "sigma", "seed"}
    [] kind = "rect_pulse" ->
         {"amplitude", "width_sec", "period_sec", "start_time_sec"}
    [] kind = "gauss_pulse" ->
         {"amplitude", "sigma_sec", "center_time_sec", "repetition_period_sec"}
    [] kind = "chirp" ->
         {"amplitude", "f0", "f1", "duration_sec", "start_time_sec"}

\* The schemas' defaults.  Times are counted in ticks of 1/200 s (0.02 s is
\* 4, 0.3 s is 60, 0.01 s is 2, 1 s is 200, 2 s is 400), the noise's sigma
\* and the chirp's amplitude in fifths (0.2 is 1, 0.8 is 4), the tone's phase
\* in quarter turns, smooth_ms in milliseconds.
SchemaDefault(kind, k) ==
  CASE kind = "sine" ->
         (CASE k = "amplitude" -> 1 [] k = "frequency" -> 5 [] k = "phase" -> 0
            [] k = "dc" -> 0 [] k = "smooth_ms" -> 150)
    [] kind = "noise" ->
         (CASE k = "mean" -> 0 [] k = "sigma" -> 1 [] k = "seed" -> 0)
    [] kind = "rect_pulse" ->
         (CASE k = "amplitude" -> 1 [] k = "width_sec" -> 4
            [] k = "period_sec" -> 60 [] k = "start_time_sec" -> 0)
    [] kind = "gauss_pulse" ->
         (CASE k = "amplitude" -> 1 [] k = "sigma_sec" -> 2
            [] k = "center_time_sec" -> 200 [] k = "repetition_period_sec" -> 0)
    [] kind = "chirp" ->
         (CASE k = "amplitude" -> 4 [] k = "f0" -> 10 [] k = "f1" -> 200
            [] k = "duration_sec" -> 400 [] k = "start_time_sec" -> 0)

\* The parameters a component is added or edited with: a tone's amplitude
\* (at frequency 1 when added), a noise's mean (with sigma 0 when added, so
\* that normal(mean, sigma) returns the mean), a pulse's or chirp's amplitude.
LevelParams(kind, level) ==
  CASE kind = "sine" -> [amplitude |-> level, frequency |-> 1]
    [] kind = "noise" -> [mean |-> level, sigma |-> 0]
    [] OTHER -> [k \in {"amplitude"} |-> level]
LevelUpdate(kind, level) ==
  IF kind = "noise" THEN [k \in {"mean"} |-> level]
  ELSE [k \in {"amplitude"} |-> level]

\* dict.update: the keys of new replace or extend those of old.
DictUpdate(old, new) ==
  [k \in (DOMAIN old) \cup (DOMAIN new) |->
     IF k \in DOMAIN new THEN new[k] ELSE old[k]]

\* A component object: its kind, ComponentState.enabled and
\* ComponentState.params.  signal_engine.py:58-63: the parameters are the
\* schema's defaults, updated with those given.
NewObject(kind, enabled, level) ==
  [kind |-> kind, enabled |-> enabled,
   params |-> DictUpdate([k \in SchemaKeys(kind) |-> SchemaDefault(kind, k)],
                         LevelParams(kind, level))]

\* update_params({"amplitude": level}) on a tone, a pulse or a chirp,
\* ({"mean": level}) on a noise (base.py:31-32).  The tone's smoothing
\* target follows its parameters (sine.py:76-78); in this model every chunk
\* that holds samples lasts n/fs >= 0.25 s, longer than smooth_ms = 150 ms,
\* so alpha is 1 and generate uses the target itself.
UpdatedObject(obj, level) ==
  [obj EXCEPT !.params = DictUpdate(@, LevelUpdate(obj.kind, level))]

\* sin(q * pi / 2)
SinQuarter(q) ==
  CASE q % 4 = 0 -> 0
    [] q % 4 = 1 -> 1
    [] q % 4 = 2 -> 0
    [] q % 4 = 3 -> 0 - 1

\* sine.py:101-107: dc + A * sin(2*pi*f*t + ph) at t = t0 + i/fs, i counted
\* from 0.  The phase 2*pi*f*t is q quarter turns with q = 4*f*t, an integer
\* for the frequencies and rates of the model.
SineSample(p, t0, i, rate) ==
  LET q == (4 * p.frequency * (t0.num * rate + i * t0.den)) \div (t0.den * rate)
  IN p.dc + p.amplitude * SinQuarter(q + p.phase)

\* The pulse trains and the chirp.  Their times (width_sec, period_sec,
\* start_time_sec, sigma_sec, center_time_sec, repetition_period_sec,
\* duration_sec) are counted in ticks of 1/200 s, in which the defaults of
\* their schemas are whole, and so is the time of sample i, t0 + i/fs, a
\* whole number of ticks for the rates of the model.  The chirp's amplitude
\* is counted in fifths (its default is 0.8).
TicksPerSec == 200

PulseObject(kind, enabled, rep) ==
  [kind |-> kind, enabled |-> enabled,
   params |->
     CASE kind = "rect_pulse" ->
            [amplitude |-> 1, width_sec |-> 50, period_sec |-> 100,
             start_time_sec |-> 50]
       [] kind = "gauss_pulse" ->
            [amplitude |-> 1, sigma_sec |-> 25, center_time_sec |-> 50,
             repetition_period_sec |-> rep]
       [] kind = "chirp" ->
            [amplitude |-> 5, f0 |-> 2, f1 |-> 18, duration_sec |-> 100,
             start_time_sec |-> 50]]

\* t0 + i/fs in ticks (rect_pulse.py:68, gauss_pulse.py:69, chirp.py:81)
Ticks(t0, i, rate) ==
  (TicksPerSec * t0.num) \div t0.den + (TicksPerSec * i) \div rate

\* int(x / y) for y > 0: the quotient cut towards zero
TruncDiv(x, y) == IF x >= 0 THEN x \div y ELSE 0 - ((0 - x) \div y)

\* rect_pulse.py:69-74: A inside a pulse of a sample at or after the start,
\* 0 elsewhere and when the period is not positive.
RectSample(p, t) ==
  LET tt == t - p.start_time_sec IN
  IF tt >= 0 /\ p.period_sec > 0 /\ (tt % p.period_sec) < p.width_sec
  THEN p.amplitude ELSE 0

\* gauss_pulse.py:72-77: the centre, or with a repetition period the five
\* repetitions around the middle of the chunk that are not before time 0.
GaussCenters(p, t0, n, rate) ==
  LET c0 == p.center_time_sec
      rp == p.repetition_period_sec
      mid == (TicksPerSec * t0.num) \div t0.den + ((TicksPerSec \div 2) * n) \div rate
      k0 == TruncDiv(mid - c0, rp)
      all == [d \in 1..5 |-> c0 + (k0 + d - 3) * rp]
  IN IF rp > 0 THEN SelectSeq(all, LAMBDA c : c >= 0) ELSE <<c0>>

\* exp(-0.5 * d ** 2) in hundredths, rounded, for a whole d
Bell(d) ==
  LET a == IF d < 0 THEN 0 - d ELSE d IN
  CASE a = 0 -> 100
    [] a = 1 -> 61
    [] a = 2 -> 14
    [] a = 3 -> 1
    [] OTHER -> 0

RECURSIVE SumBells(_, _, _)
SumBells(cs, t, sigma) ==
  IF cs = << >> THEN 0
  ELSE Bell((t - Head(cs)) \div sigma) + SumBells(Tail(cs), t, sigma)

\* gauss_pulse.py:79-80: the sum over the centres c of
\* A * exp(-0.5 * ((t - c) / sigma) ** 2), in hundredths; t - c is a whole
\* number of sigmas for the sigma of the model.
GaussSample(p, cs, t) == p.amplitude * SumBells(cs, t, p.sigma_sec)

\* cos(2*pi*j/128) in thousandths, rounded, for j = 0..32
CosTable ==
  <<1000, 999, 995, 989, 981, 970, 957, 942, 924, 904, 882, 858, 831, 803, 773,
    741, 707, 672, 634, 596, 556, 514, 471, 428, 383, 337, 290, 243, 195, 147,
    98, 49, 0>>

\* cos(2*pi*j/128) in thousandths for any whole j, by the symmetries of cos
Cos128(j) ==
  LET m == j % 128 IN
  IF m <= 32 THEN CosTable[m + 1]
  ELSE IF m <= 64 THEN 0 - CosTable[65 - m]
  ELSE IF m <= 96 THEN 0 - CosTable[m - 63]
  ELSE CosTable[129 - m]

\* cos(2*pi*num/den) in thousandths for den > 0: the table's value where the
\* angle is a whole number of 128ths of a turn, and between two of them the
\* value on the straight line from one to the next, rounded (within one
\* thousandth of the cosine).
CosTurns(num, den) ==
  LET r == num % den
      j == (128 * r) \div den
      f == (128 * r) % den
      c0 == Cos128(j)
      c1 == Cos128(j + 1)
  IN (c0 * den + (c1 - c0) * f + den \div 2) \div den

\* chirp.py:84-87: inside [start, start + duration] the value
\* A * cos(2*pi*(f0*tt + 0.5*(f1 - f0)/duration * tt**2)) at tt = t - start
\* (scipy.signal.chirp, method "linear"); 0 outside.  With tt = k ticks and
\* the duration D ticks the phase is f0*k/200 + (f1 - f0)*k*k/(2*200*D)
\* turns, carried as the exact fraction num/den; the value is in thousandths
\* of the amplitude's unit.
ChirpSample(p, t) ==
  LET k == t - p.start_time_sec
      den == 2 * TicksPerSec * p.duration_sec
      num == 2 * p.duration_sec * p.f0 * k + (p.f1 - p.f0) * k * k
  IN IF t >= p.start_time_sec /\ t <= p.start_time_sec + p.duration_sec
     THEN p.amplitude * CosTurns(num, den)
     ELSE 0

\* generate(t0, n, fs) raises: np.zeros(n) (a disabled component, line 70 of
\* the pulse trains, line 82 of the chirp) and rng.normal(size=n) (noise)
\* refuse a negative n; an enabled tone returns an empty array there.
GenerateRaises(obj, n) == n < 0 /\ (~obj.enabled \/ obj.kind # "sine")

\* Mutant: a disabled component generates as an enabled one.
IsOffNever(obj) == FALSE

\* if not self.state.enabled (line 86 of sine.py, 54 of noise.py, 60 of
\* rect_pulse.py, 61 of gauss_pulse.py, 72 of chirp.py)
IsOff(obj) == ~obj.enabled

\* noise.py:51 and 60-62: the generator is seeded from the system unless a
\* seed other than 0 is given (the model's noises give none), so each of the
\* n values of line 64 is any deviate.  The deviates the model draws are
\* whole fifths of five, so that sigma (in fifths) times a deviate is whole;
\* with sigma 0, or nothing to draw, there is one outcome.
Deviates == {0 - 5, 0, 5}
NoiseDraws(obj, n) ==
  IF obj.kind = "noise" /\ obj.enabled /\ n > 0 /\ obj.params.sigma # 0
  THEN [1..n -> Deviates] ELSE {<< >>}

\* noise.py:64: rng.normal(mean, sigma, size=n), sample j from deviate z[j]
NoiseSample(p, z, j) ==
  IF p.sigma = 0 THEN p.mean ELSE p.mean + (p.sigma * z[j]) \div 5

\* generate(t0, n, fs): noise.py:53-64, sine.py:85-108, rect_pulse.py:59-75,
\* gauss_pulse.py:60-81, chirp.py:71-88; z holds the deviates a noise draws.
Generate(obj, t0, n, rate, z) ==
  IF n <= 0 THEN << >>
  ELSE IF IsOff(obj) THEN Zeros(n)
  ELSE CASE obj.kind = "sine" ->
              [j \in 1..n |-> SineSample(obj.params, t0, j - 1, rate)]
         [] obj.kind = "noise" -> [j \in 1..n |-> NoiseSample(obj.params, z, j)]
         [] obj.kind = "rect_pulse" ->
              [j \in 1..n |-> RectSample(obj.params, Ticks(t0, j - 1, rate))]
         [] obj.kind = "gauss_pulse" ->
              LET cs == GaussCenters(obj.params, t0, n, rate)
              IN [j \in 1..n |-> GaussSample(obj.params, cs, Ticks(t0, j - 1, rate))]
         [] obj.kind = "chirp" ->
              [j \in 1..n |-> ChirpSample(obj.params, Ticks(t0, j - 1, rate))]

\* ----------------------------------------------------------- SignalEngine
\* Mutant: the engine's lock lets a reader in while a writer holds it.
EngineCanEnterUnlocked(t) == TRUE

\* Mutant: the generation thread does not take the lock.
EngineCanEnterGen(t) == t = GEN \/ elock = {}

\* with self._lock (threading.Lock, signal_engine.py:15): a thread enters
\* when no thread holds the lock.
EngineCanEnter(t) == elock = {}

\* len(self._chunk_buf[:n]): a negative n counts from the end.
ViewLen(n) == IF n >= 0 THEN Min(n, MAX_CHUNK) ELSE Max(MAX_CHUNK + n, 0)

\* The view x = self._chunk_buf[:n], and the buffer after writing through it.
View(b, k) == SubSeq(b, 1, k)
WithView(b, x) == [j \in 1..Len(b) |-> IF j <= Len(x) THEN x[j] ELSE b[j]]

\* Mutant: the accumulator is not zeroed.
FillZeroForgotten(b, k) == b

\* line 129: x.fill(0.0)
FillZero(b, k) == WithView(b, Zeros(k))

\* x += y raises unless y has x's length (or length 1, which broadcasts).
AddRaises(x, y) == Len(y) # Len(x) /\ Len(y) # 1

\* line 131: x += c.generate(...)
Accumulate(x, y) ==
  [j \in 1..Len(x) |-> x[j] + (IF Len(y) = 1 THEN y[1] ELSE y[j])]

\* line 133: if clip and clip > 0
ClipOn(c) == c # 0 /\ c > 0

\* Mutant: only the upper limit is applied.
ClipUpperOnly(x, c) == [j \in 1..Len(x) |-> Min(x[j], c)]

\* line 134: np.clip(x, -clip, clip, out=x)
Clip(x, c) == [j \in 1..Len(x) |-> Min(Max(x[j], 0 - c), c)]

\* Mutant: the paused check is dropped.
ReturnsEarlyNever(c) == FALSE

\* line 125: if paused
ReturnsEarly(c) == c.paused

\* Mutant: a paused call returns n zeros ("If paused -> zeros").
PausedChunkZeros(n) == Zeros(ViewLen(n))

\* line 126: np.zeros(0)
PausedChunk(n) == Zeros(0)

\* The locals of a thread that is not inside generate_chunk.
NoCap ==
  [fs |-> 0, n |-> 0, paused |-> TRUE, comps |-> << >>, clip |-> 0, snap |-> << >>]
NoTime == [num |-> 0, den |-> 1]
NoLoc == [t0 |-> NoTime, n |-> 0, i |-> 0, seen |-> << >>, on |-> FALSE]
NoRet == [x |-> << >>, t0 |-> NoTime]

\* The callers keep the clock within the model's range.
CallAllowed == samples < MaxSamples /\ samples + MaxSamples > 0

\* A call of generate_chunk (line 114) by any thread, such as a test.
DirectCall ==
  /\ gpc = "idle"
  /\ CallAllowed
  /\ gpc' = "E116"
  /\ UNCHANGED <<cap, loc, ret>>
  /\ UNCHANGED <<ringVars, engVars, loopVars>>
  /\ UNCHANGED <<wavVars, plugVars, elockVars>>
  /\ UNCHANGED unitVars

\* lines 116-121, under the engine's lock.  comps is a new list of the same
\* component objects; snap records what those objects held at this moment.
Capture ==
  /\ EngineCanEnter(GEN)
  /\ gpc = "E116"
  /\ cap' = [fs |-> fs, n |-> chunk_size, paused |-> paused,
             comps |-> components, clip |-> amplitude_clip,
             snap |-> [i \in 1..Len(components) |-> heap[components[i]]]]
  /\ gpc' = "E123"
  /\ UNCHANGED <<loc, ret>>
  /\ UNCHANGED <<ringVars, engVars, loopVars>>
  /\ UNCHANGED <<wavVars, plugVars, elockVars>>
  /\ UNCHANGED unitVars

\* lines 123-129: t0 from the clock; the paused return; the zeroed view.
ReadClock ==
  /\ gpc = "E123"
  /\ LET t0 == [num |-> samples, den |-> cap.fs] IN
     IF cap.fs = 0
     THEN /\ gpc' = "raised"
          /\ UNCHANGED <<loc, ret, chunk_buf>>
     ELSE IF ReturnsEarly(cap)
     THEN /\ ret' = [x |-> PausedChunk(cap.n), t0 |-> t0]
          /\ loc' = [loc EXCEPT !.t0 = t0]
          /\ gpc' = "ret"
          /\ UNCHANGED chunk_buf
     ELSE /\ chunk_buf' = FillZero(chunk_buf, ViewLen(Min(cap.n, MAX_CHUNK)))
          /\ loc' = [t0 |-> t0, n |-> Min(cap.n, MAX_CHUNK), i |-> 1, seen |-> << >>, on |-> FALSE]
          /\ gpc' = IF cap.comps = << >> THEN "E133" ELSE "E130"
          /\ UNCHANGED ret
  /\ UNCHANGED cap
  /\ UNCHANGED <<fs, chunk_size, amplitude_clip, paused, components, heap, samples>>
  /\ UNCHANGED <<ringVars, loopVars>>
  /\ UNCHANGED <<wavVars, plugVars, elockVars>>
  /\ UNCHANGED unitVars

\* lines 130-131, one component, first line of generate (sine.py:86,
\* noise.py:54, rect_pulse.py:60, gauss_pulse.py:61, chirp.py:72): the
\* generation thread reads state.enabled without the engine's lock.
GenerateEnter ==
  /\ gpc = "E130"
  /\ loc' = [loc EXCEPT !.on = heap[cap.comps[loc.i]].enabled]
  /\ gpc' = "E131"
  /\ UNCHANGED <<cap, ret>>
  /\ UNCHANGED engVars
  /\ UNCHANGED <<ringVars, loopVars>>
  /\ UNCHANGED <<wavVars, plugVars, elockVars>>
  /\ UNCHANGED unitVars

\* What generate works from: the flag it read at its first line and the
\* parameters the object holds when the later lines read them (sine.py:96-99
\* through _target, noise.py:57-58).
AsRead(obj, on) == [obj EXCEPT !.enabled = on]

\* line 131, the rest of generate and the sum: the parameters are read now,
\* still without the engine's lock.  seen records what generate read.
GenerateOne ==
  /\ gpc = "E131"
  /\ \E z \in NoiseDraws(AsRead(heap[cap.comps[loc.i]], loc.on), loc.n) :
     LET obj == AsRead(heap[cap.comps[loc.i]], loc.on)
         x == View(chunk_buf, ViewLen(loc.n))
         y == Generate(obj, loc.t0, loc.n, cap.fs, z)
     IN IF GenerateRaises(obj, loc.n) \/ AddRaises(x, y)
        THEN /\ gpc' = "raised"
             /\ UNCHANGED <<loc, chunk_buf>>
        ELSE /\ chunk_buf' = WithView(chunk_buf, Accumulate(x, y))
             /\ loc' = [loc EXCEPT !.i = loc.i + 1, !.seen = Append(loc.seen, obj)]
             /\ gpc' = IF loc.i = Len(cap.comps) THEN "E133" ELSE "E130"
  /\ UNCHANGED <<cap, ret>>
  /\ UNCHANGED <<fs, chunk_size, amplitude_clip, paused, components, heap, samples>>
  /\ UNCHANGED <<ringVars, loopVars>>
  /\ UNCHANGED <<wavVars, plugVars, elockVars>>
  /\ UNCHANGED unitVars

\* lines 133-137: clip in place, advance the clock, return a copy.
Finish ==
  /\ gpc = "E133"
  /\ LET x == View(chunk_buf, ViewLen(loc.n))
         y == IF ClipOn(cap.clip) THEN Clip(x, cap.clip) ELSE x
     IN /\ chunk_buf' = WithView(chunk_buf, y)
        /\ ret' = [x |-> y, t0 |-> loc.t0]
  /\ samples' = samples + loc.n
  /\ gpc' = "ret"
  /\ UNCHANGED <<cap, loc>>
  /\ UNCHANGED <<fs, chunk_size, amplitude_clip, paused, components, heap>>
  /\ UNCHANGED <<ringVars, loopVars>>
  /\ UNCHANGED <<wavVars, plugVars, elockVars>>
  /\ UNCHANGED unitVars

\* The direct caller takes the returned value.
DirectReturn ==
  /\ gpc = "ret"
  /\ gpc' = "idle"
  /\ cap' = NoCap /\ loc' = NoLoc /\ ret' = NoRet
  /\ UNCHANGED <<ringVars, engVars, loopVars>>
  /\ UNCHANGED <<wavVars, plugVars, elockVars>>
  /\ UNCHANGED unitVars

\* ------------------------------------------- SignalEngine's control surface
\* Each method runs whole under the engine's lock.
\* An optional argument: the empty set is None, {v} is the value v.
Optional(S) == {{}} \cup {{v} : v \in S}
ValueOf(o) == CHOOSE v \in o : TRUE

\* set_global, lines 26-33: an argument that is None leaves its field alone.
SetGlobal(f, c, a) ==
  /\ EngineCanEnter(UI)
  /\ fs' = IF f = {} THEN fs ELSE ValueOf(f)
  /\ chunk_size' = IF c = {} THEN chunk_size ELSE ValueOf(c)
  /\ amplitude_clip' = IF a = {} THEN amplitude_clip ELSE ValueOf(a)
  /\ UNCHANGED <<paused, components, heap, chunk_buf, samples>>
  /\ UNCHANGED <<ringVars, genVars, loopVars>>
  /\ UNCHANGED <<wavVars, plugVars, elockVars>>
  /\ UNCHANGED unitVars

\* play, lines 40-42
Play ==
  /\ EngineCanEnter(UI)
  /\ paused' = FALSE
  /\ UNCHANGED <<fs, chunk_size, amplitude_clip, components, heap, chunk_buf, samples>>
  /\ UNCHANGED <<ringVars, genVars, loopVars>>
  /\ UNCHANGED <<wavVars, plugVars, elockVars>>
  /\ UNCHANGED unitVars

\* pause, lines 44-46
Pause ==
  /\ EngineCanEnter(UI)
  /\ paused' = TRUE
  /\ UNCHANGED <<fs, chunk_size, amplitude_clip, components, heap, chunk_buf, samples>>
  /\ UNCHANGED <<ringVars, genVars, loopVars>>
  /\ UNCHANGED <<wavVars, plugVars, elockVars>>
  /\ UNCHANGED unitVars

\* Mutant: reset pauses the engine as well.
ResetAndPause ==
  /\ EngineCanEnter(UI)
  /\ samples' = 0
  /\ paused' = TRUE
  /\ UNCHANGED <<fs, chunk_size, amplitude_clip, components, heap, chunk_buf>>
  /\ UNCHANGED <<ringVars, genVars, loopVars>>
  /\ UNCHANGED <<wavVars, plugVars, elockVars>>
  /\ UNCHANGED unitVars

\* reset, lines 52-54, and RealtimeClock.reset (realtime_clock.py:11-14)
Reset ==
  /\ EngineCanEnter(UI)
  /\ samples' = 0
  /\ UNCHANGED <<fs, chunk_size, amplitude_clip, paused, components, heap, chunk_buf>>
  /\ UNCHANGED <<ringVars, genVars, loopVars>>
  /\ UNCHANGED <<wavVars, plugVars, elockVars>>
  /\ UNCHANGED unitVars

\* add_component, lines 56-67
AddComponent(kind, level, enabled) ==
  /\ EngineCanEnter(UI)
  /\ Len(heap) < MaxObjs
  /\ heap' = Append(heap, NewObject(kind, enabled, level))
  /\ components' = Append(components, Len(heap) + 1)
  /\ UNCHANGED <<fs, chunk_size, amplitude_clip, paused, chunk_buf, samples>>
  /\ UNCHANGED <<ringVars, genVars, loopVars>>
  /\ UNCHANGED <<wavVars, plugVars, elockVars>>
  /\ UNCHANGED unitVars

\* remove_component, lines 69-72: components.pop(idx), idx counted from 0
RemoveComponent(idx) ==
  /\ EngineCanEnter(UI)
  /\ components' =
       IF 0 <= idx /\ idx < Len(components)
       THEN SubSeq(components, 1, idx) \o SubSeq(components, idx + 2, Len(components))
       ELSE components
  /\ UNCHANGED <<fs, chunk_size, amplitude_clip, paused, heap, chunk_buf, samples>>
  /\ UNCHANGED <<ringVars, genVars, loopVars>>
  /\ UNCHANGED <<wavVars, plugVars, elockVars>>
  /\ UNCHANGED unitVars

\* set_component_enabled, lines 74-77: the object itself is changed
SetComponentEnabled(idx, b) ==
  /\ EngineCanEnter(UI)
  /\ heap' =
       IF 0 <= idx /\ idx < Len(components)
       THEN [heap EXCEPT ![components[idx + 1]].enabled = b]
       ELSE heap
  /\ UNCHANGED <<fs, chunk_size, amplitude_clip, paused, components, chunk_buf, samples>>
  /\ UNCHANGED <<ringVars, genVars, loopVars>>
  /\ UNCHANGED <<wavVars, plugVars, elockVars>>
  /\ UNCHANGED unitVars

\* update_component_params, lines 79-82: the object itself is changed
UpdateComponentParams(idx, level) ==
  /\ EngineCanEnter(UI)
  /\ heap' =
       IF 0 <= idx /\ idx < Len(components)
       THEN [heap EXCEPT ![components[idx + 1]] = UpdatedObject(@, level)]
       ELSE heap
  /\ UNCHANGED <<fs, chunk_size, amplitude_clip, paused, components, chunk_buf, samples>>
  /\ UNCHANGED <<ringVars, genVars, loopVars>>
  /\ UNCHANGED <<wavVars, plugVars, elockVars>>
  /\ UNCHANGED unitVars

\* Mutant: the defaults replace what the entry gives.
BackfillOverwrites(kind, ps) == [k \in SchemaKeys(kind) |-> SchemaDefault(kind, k)]

\* lines 109-111: every schema key the entry's params lack gets its default.
Backfill(kind, ps) ==
  [k \in (DOMAIN ps) \cup SchemaKeys(kind) |->
     IF k \in DOMAIN ps THEN ps[k] ELSE SchemaDefault(kind, k)]

\* An entry of a preset-style list.  shape tells what the JSON value is:
\*   "ok"          a mapping whose params value is a mapping (or is absent);
\*   "not_mapping" a value that is not a mapping (a number, a list, ...);
\*   "bad_type"    a mapping whose type value cannot be hashed (a list or a
\*                 mapping);
\*   "bad_params"  a mapping whose params value dict() refuses: a number,
\*                 null, a string that is not empty, a list with an element
\*                 that is not a pair;
\*   "pairs"       a mapping whose params value is not a mapping and dict()
\*                 accepts: an empty list, an empty string, a list of
\*                 pairs; params is then the mapping dict() makes of it.
\* enabled is optional.
\* An entry is kept when its type is a known kind (lines 101-103).
KnownEntry(e) == e.shape # "bad_type" /\ e.type \in BUILTIN_COMPONENTS

\* line 101: c.get on a value that is not a mapping raises; line 102: the
\* membership test raises on a type that cannot be hashed; lines 105-108:
\* dict(params) raises on a value it refuses, for a known kind.
EntryRaises(e) ==
  \/ e.shape = "not_mapping"
  \/ e.shape = "bad_type"
  \/ e.shape = "bad_params" /\ KnownEntry(e)

\* lines 104-112: the component built from a kept entry.
EntryObject(e) ==
  [kind |-> e.type,
   enabled |-> IF e.enabled = {} THEN TRUE ELSE ValueOf(e.enabled),
   params |-> Backfill(e.type, e.params)]

\* Mutant: the snapshot reports every component as enabled.
ObjectEntryAllEnabled(obj) ==
  [shape |-> "ok", type |-> obj.kind, enabled |-> {TRUE}, params |-> obj.params]

\* lines 88-93: the entry snapshot_components writes for a component.
ObjectEntry(obj) ==
  [shape |-> "ok", type |-> obj.kind, enabled |-> {obj.enabled},
   params |-> obj.params]

\* snapshot_components, lines 84-94
SnapshotOf(comps, hp) == [i \in 1..Len(comps) |-> ObjectEntry(hp[comps[i]])]

\* lines 100-112 run over a list: the components built so far, and whether
\* an entry raised (which ends the loop there).
RECURSIVE Rebuild(_, _)
Rebuild(list, acc) ==
  IF list = << >> THEN [objs |-> acc, raised |-> FALSE]
  ELSE IF EntryRaises(Head(list)) THEN [objs |-> acc, raised |-> TRUE]
  ELSE IF ~KnownEntry(Head(list)) THEN Rebuild(Tail(list), acc)
  ELSE Rebuild(Tail(list), Append(acc, EntryObject(Head(list))))

\* The component objects still referenced once the engine's list is cleared:
\* those a generate_chunk in flight captured.
HeapKept == IF cap.comps = << >> THEN << >> ELSE heap

\* replace_components, lines 96-112, run whole.  An exception leaves the
\* with block (the lock is released) and reaches the caller.
ReplaceComponents(snap) ==
  /\ EngineCanEnter(UI)
  /\ epc = "idle"
  /\ LET r == Rebuild(snap, << >>) IN
     /\ Len(HeapKept) + Len(r.objs) <= MaxObjs
     /\ heap' = HeapKept \o r.objs
     /\ components' = [i \in 1..Len(r.objs) |-> Len(HeapKept) + i]
     /\ epc' = IF r.raised THEN "raised" ELSE "idle"
  /\ UNCHANGED <<elock, earg, snapres>>
  /\ UNCHANGED <<fs, chunk_size, amplitude_clip, paused, chunk_buf, samples>>
  /\ UNCHANGED <<ringVars, genVars, loopVars>>
  /\ UNCHANGED <<wavVars, plugVars>>
  /\ UNCHANGED unitVars

\* replace_components step by step.  Line 98: the lock is taken.  all is the
\* list given, rest the entries still to be handled, old the components the
\* engine held when the call began.
ReplaceLock(snap) ==
  /\ EngineCanEnter(UI)
  /\ epc = "idle"
  /\ Len(HeapKept) + Len(snap) <= MaxObjs
  /\ elock' = {UI}
  /\ earg' = [all |-> snap, rest |-> snap,
              old |-> [i \in 1..Len(components) |-> heap[components[i]]]]
  /\ epc' = "X99"
  /\ UNCHANGED snapres
  /\ UNCHANGED <<ringVars, engVars, genVars, loopVars>>
  /\ UNCHANGED <<wavVars, plugVars>>
  /\ UNCHANGED unitVars

\* line 99: self.components.clear()
ReplaceClear ==
  /\ epc = "X99"
  /\ components' = << >>
  /\ heap' = HeapKept
  /\ epc' = "X100"
  /\ UNCHANGED <<elock, earg, snapres>>
  /\ UNCHANGED <<fs, chunk_size, amplitude_clip, paused, chunk_buf, samples>>
  /\ UNCHANGED <<ringVars, genVars, loopVars>>
  /\ UNCHANGED <<wavVars, plugVars>>
  /\ UNCHANGED unitVars

\* lines 100-112, one entry of the list
ReplaceEntry ==
  /\ epc = "X100"
  /\ earg.rest # << >>
  /\ LET en == Head(earg.rest) IN
     IF EntryRaises(en)
     THEN /\ elock' = elock \ {UI}
          /\ epc' = "raised"
          /\ earg' = << >>
          /\ UNCHANGED <<heap, components>>
     ELSE IF ~KnownEntry(en)
     THEN /\ earg' = [earg EXCEPT !.rest = Tail(earg.rest)]
          /\ UNCHANGED <<elock, epc, heap, components>>
     ELSE /\ heap' = Append(heap, EntryObject(en))
          /\ components' = Append(components, Len(heap) + 1)
          /\ earg' = [earg EXCEPT !.rest = Tail(earg.rest)]
          /\ UNCHANGED <<elock, epc>>
  /\ UNCHANGED snapres
  /\ UNCHANGED <<fs, chunk_size, amplitude_clip, paused, chunk_buf, samples>>
  /\ UNCHANGED <<ringVars, genVars, loopVars>>
  /\ UNCHANGED <<wavVars, plugVars>>
  /\ UNCHANGED unitVars

\* the end of the with block of line 98
ReplaceUnlock ==
  /\ epc = "X100"
  /\ earg.rest = << >>
  /\ elock' = elock \ {UI}
  /\ earg' = << >>
  /\ epc' = "idle"
  /\ UNCHANGED snapres
  /\ UNCHANGED <<ringVars, engVars, genVars, loopVars>>
  /\ UNCHANGED <<wavVars, plugVars>>
  /\ UNCHANGED unitVars

\* MainWindow.on_load_preset, main_window.py:1179-1180: the exception of
\* _apply_preset is caught and shown; nothing is restored.
LoadPresetFailed ==
  /\ epc = "raised"
  /\ epc' = "idle"
  /\ UNCHANGED <<elock, earg, snapres>>
  /\ UNCHANGED <<ringVars, engVars, genVars, loopVars>>
  /\ UNCHANGED <<wavVars, plugVars>>
  /\ UNCHANGED unitVars

\* snapshot_components, lines 84-94, called by any thread, run whole under
\* the lock.
SnapshotComponents ==
  /\ EngineCanEnter(T2)
  /\ snapres' = SnapshotOf(components, heap)
  /\ UNCHANGED <<elock, epc, earg>>
  /\ UNCHANGED <<ringVars, engVars, genVars, loopVars>>
  /\ UNCHANGED <<wavVars, plugVars>>
  /\ UNCHANGED unitVars

\* set_global step by step.  Line 27: the lock is taken; pre is the pair in
\* effect before the call.
SetGlobalLock(f, c, a) ==
  /\ EngineCanEnter(UI)
  /\ epc = "idle"
  /\ elock' = {UI}
  /\ earg' = [f |-> f, c |-> c, a |-> a, pre |-> [fs |-> fs, n |-> chunk_size]]
  /\ epc' = "G28"
  /\ UNCHANGED snapres
  /\ UNCHANGED <<ringVars, engVars, genVars, loopVars>>
  /\ UNCHANGED <<wavVars, plugVars>>
  /\ UNCHANGED unitVars

\* lines 28-29
SetGlobalFs ==
  /\ epc = "G28"
  /\ fs' = IF earg.f = {} THEN fs ELSE ValueOf(earg.f)
  /\ epc' = "G30"
  /\ UNCHANGED <<elock, earg, snapres>>
  /\ UNCHANGED <<chunk_size, amplitude_clip, paused, components, heap, chunk_buf, samples>>
  /\ UNCHANGED <<ringVars, genVars, loopVars>>
  /\ UNCHANGED <<wavVars, plugVars>>
  /\ UNCHANGED unitVars

\* lines 30-31
SetGlobalChunk ==
  /\ epc = "G30"
  /\ chunk_size' = IF earg.c = {} THEN chunk_size ELSE ValueOf(earg.c)
  /\ epc' = "G32"
  /\ UNCHANGED <<elock, earg, snapres>>
  /\ UNCHANGED <<fs, amplitude_clip, paused, components, heap, chunk_buf, samples>>
  /\ UNCHANGED <<ringVars, genVars, loopVars>>
  /\ UNCHANGED <<wavVars, plugVars>>
  /\ UNCHANGED unitVars

\* lines 32-33, and the end of the with block
SetGlobalClip ==
  /\ epc = "G32"
  /\ amplitude_clip' = IF earg.a = {} THEN amplitude_clip ELSE ValueOf(earg.a)
  /\ elock' = elock \ {UI}
  /\ earg' = << >>
  /\ epc' = "idle"
  /\ UNCHANGED snapres
  /\ UNCHANGED <<fs, chunk_size, paused, components, heap, chunk_buf, samples>>
  /\ UNCHANGED <<ringVars, genVars, loopVars>>
  /\ UNCHANGED <<wavVars, plugVars>>
  /\ UNCHANGED unitVars

\* The entry a component added with level l would be saved as.
LevelEntry(type, enabled, level) ==
  [shape |-> "ok", type |-> type, enabled |-> {enabled},
   params |-> IF type \in BUILTIN_COMPONENTS
              THEN NewObject(type, enabled, level).params
              ELSE LevelParams(type, level)]

\* The entries of a saved configuration: mappings of a known kind with none,
\* some or all of the kind's parameters and with or without an enabled flag,
\* mappings of an unknown kind, and malformed ones: a value that is not a
\* mapping, a type that cannot be hashed, a params value that dict() refuses
\* (3) and params values it accepts ([] and [["mean", 2]]).
NoParams == [k \in {} |-> 0]
ParamChoices(type) ==
  CASE type = "sine" ->
         {NoParams, [k \in {"amplitude"} |-> 2], [amplitude |-> 2, frequency |-> 1]}
    [] type = "noise" -> {NoParams, [k \in {"mean"} |-> 2]}
    [] type = "rect_pulse" -> {NoParams, [k \in {"width_sec"} |-> 50]}
    [] type = "gauss_pulse" -> {NoParams, [k \in {"repetition_period_sec"} |-> 100]}
    [] type = "chirp" -> {NoParams, [f0 |-> 2, f1 |-> 18]}
    [] OTHER -> {NoParams}
ConfigEntries ==
  {[shape |-> "ok", type |-> t, enabled |-> b, params |-> ps] :
     t \in {"sine"}, b \in {{}, {FALSE}}, ps \in ParamChoices("sine")}
  \cup {[shape |-> "ok", type |-> t, enabled |-> b, params |-> ps] :
     t \in {"noise"}, b \in {{}, {FALSE}}, ps \in ParamChoices("noise")}
  \cup {[shape |-> "ok", type |-> t, enabled |-> b, params |-> ps] :
     t \in {"rect_pulse"}, b \in {{}, {FALSE}}, ps \in ParamChoices("rect_pulse")}
  \cup {[shape |-> "ok", type |-> t, enabled |-> b, params |-> ps] :
     t \in {"gauss_pulse"}, b \in {{}, {FALSE}}, ps \in ParamChoices("gauss_pulse")}
  \cup {[shape |-> "ok", type |-> t, enabled |-> b, params |-> ps] :
     t \in {"chirp"}, b \in {{}, {FALSE}}, ps \in ParamChoices("chirp")}
  \cup {[shape |-> "ok", type |-> "bogus", enabled |-> b, params |-> NoParams] :
     b \in {{}, {FALSE}}}
  \cup {[shape |-> "not_mapping", type |-> "bogus", enabled |-> {}, params |-> NoParams]}
  \cup {[shape |-> "bad_params", type |-> t, enabled |-> {}, params |-> NoParams] :
     t \in {"sine", "chirp", "bogus"}}
  \cup {[shape |-> "bad_type", type |-> "bogus", enabled |-> {}, params |-> NoParams]}
  \cup {[shape |-> "pairs", type |-> "sine", enabled |-> {}, params |-> NoParams],
        [shape |-> "pairs", type |-> "noise", enabled |-> {},
         params |-> [k \in {"mean"} |-> 2]]}
\* The lists: empty, of one entry, and of any entry followed by one of a few.
SecondEntries ==
  {[shape |-> "ok", type |-> "sine", enabled |-> {}, params |-> [k \in {"amplitude"} |-> 2]],
   [shape |-> "ok", type |-> "noise", enabled |-> {FALSE}, params |-> NoParams],
   [shape |-> "ok", type |-> "chirp", enabled |-> {}, params |-> [f0 |-> 2, f1 |-> 18]],
   [shape |-> "ok", type |-> "bogus", enabled |-> {}, params |-> NoParams],
   [shape |-> "not_mapping", type |-> "bogus", enabled |-> {}, params |-> NoParams],
   [shape |-> "bad_params", type |-> "chirp", enabled |-> {}, params |-> NoParams]}
ConfigLists ==
  {<< >>} \cup {<<x>> : x \in ConfigEntries}
    \cup {<<x, y>> : x \in ConfigEntries, y \in SecondEntries}

\* replace_components(snapshot_components()): a configuration saved and
\* loaded back by one thread.
RoundTrip == ReplaceComponents(SnapshotOf(components, heap))

\* Preset-style lists given to replace_components.
SnapEntries == {LevelEntry(t, b, 1) : t \in Kinds \cup {"bogus"}, b \in BOOLEAN}
Snaps == {<< >>} \cup {<<e>> : e \in SnapEntries}

\* What a call of a plugin's code does: it returns a result, or it
\* raises an instance of Exception (ValueError, TypeError, ...), or one of
\* BaseException only (SystemExit, KeyboardInterrupt, GeneratorExit).
TransformOutcomes == {"returns", "Exception", "BaseException"}

\* Mutant: the handler catches nothing.
ExceptCatchesNothing(exc) == FALSE

\* main_window.py:132 and plugin_manager.py:76: except Exception catches the
\* instances of Exception and lets every other exception pass.
ExceptCatches(exc) == exc = "Exception"

\* --------------------------------------------------------- PluginManager
\* A mapping with no keys, and a mapping with one key set (dict item
\* assignment).
EmptyMap == [k \in {} |-> {}]
Put(m, k, v) == [x \in (DOMAIN m) \cup {k} |-> IF x = k THEN v ELSE m[x]]

\* A candidate module: its name, the id it is located by, what goes wrong
\* when it is loaded ("none", or the import, a missing PLUGIN_META, a missing
\* WaveletPlugin, or the constructor), and the id its PLUGIN_META declares
\* (the empty set: none).  A file whose run raises does so before it sets a
\* name ("import": a syntax error, a raise at its first line), after it has
\* set PLUGIN_META only ("import_meta"), WaveletPlugin only ("import_class")
\* or both ("import_both"); these raise an instance of Exception.  A run
\* ("exit") or a constructor ("ctor_exit") may also raise an exception that
\* is no instance of Exception (SystemExit, KeyboardInterrupt).
\* plugin_manager.py:38-41: the built-in modules, in order.
BuiltinCands ==
  << [mod |-> "wavelets.builtins.cwt_morlet", lookup |-> "builtin:cwt_morlet",
      fault |-> "none", declared |-> {"builtin:cwt_morlet"}],
     [mod |-> "wavelets.builtins.dwt_wpt", lookup |-> "builtin:dwt_wpt",
      fault |-> "none", declared |-> {"builtin:dwt_wpt"}] >>

LateFaults == {"import_meta", "import_class", "import_both"}
Faults == {"import", "no_meta", "no_class", "ctor", "exit", "ctor_exit"} \cup LateFaults

\* A declared id that cannot be a key of a dict: PLUGIN_META = {"id": [...]}.
UnhashableId == "unhashable"

\* plugin_manager.py:53-54: the module name and lookup id of a file of
\* plugins/wavelets.
ExtCand(name, fault, declared) ==
  [mod |-> IF name = "a" THEN "plugins.wavelets.a" ELSE "plugins.wavelets.b",
   lookup |-> IF name = "a" THEN "plugin:plugins.wavelets.a"
              ELSE "plugin:plugins.wavelets.b",
   fault |-> fault, declared |-> declared]

\* What plugins/wavelets may hold: a file a.py, well-formed (declaring no id,
\* an id of its own, its lookup id, or an id that cannot be hashed) or failing
\* in one of the ways above, and
\* a file b.py, well-formed (declaring no id, the id a.py may declare, or
\* a.py's lookup id) or failing to import.
CandsA ==
  {ExtCand("a", "none", d) :
     d \in {{}, {"my:a"}, {"plugin:plugins.wavelets.a"}, {UnhashableId}}}
    \cup {ExtCand("a", f, {}) : f \in Faults}
CandsB ==
  {ExtCand("b", "none", d) : d \in {{}, {"my:a"}, {"plugin:plugins.wavelets.a"}}}
    \cup {ExtCand("b", "import", {})}

\* plugin_manager.py:50: os.listdir, in any order.
ExtLists ==
  {<< >>} \cup {<<a>> : a \in CandsA}
    \cup {<<a, b>> : a \in CandsA, b \in CandsB}
    \cup {<<b, a>> : b \in CandsB, a \in CandsA}

\* The plugin ids the UI may select: a built-in and an external one.
PluginIds == {"builtin:cwt_morlet", "plugin:plugins.wavelets.a"}

\* The names a module's namespace holds: the class WaveletPlugin ("none",
\* "ok", or one whose constructor raises an Exception, "raises", or another
\* exception, "exits") and PLUGIN_META (the empty set: not
\* defined; otherwise the set holding the id it declares, itself a set).
NoNames == [cls |-> "none", meta |-> {}]
Namespace(mods, c) == IF c.mod \in DOMAIN mods THEN mods[c.mod] ELSE NoNames

\* The run of the file raises; the names the run sets, in that case up to
\* the raise.
RaisesInRun(c) == c.fault \in {"import", "exit"} \cup LateFaults
SetsClass(c) == c.fault \notin {"import", "exit", "import_meta", "no_class"}
SetsMeta(c) == c.fault \notin {"import", "exit", "import_class", "no_meta"}

\* lines 57-61: a module not in sys.modules is imported (a failing import
\* leaves it out of sys.modules); one that is there is run again by
\* importlib.reload in the namespace it has, so that a name the file does
\* not set keeps its old value, and a failing run leaves the module in
\* sys.modules with the names it set before it raised.
Executed(mods, c) ==
  IF RaisesInRun(c) /\ c.mod \notin DOMAIN mods THEN mods
  ELSE Put(mods, c.mod,
           [cls |-> IF ~SetsClass(c) THEN Namespace(mods, c).cls
                    ELSE IF c.fault = "ctor" THEN "raises"
                    ELSE IF c.fault = "ctor_exit" THEN "exits" ELSE "ok",
            meta |-> IF ~SetsMeta(c) THEN Namespace(mods, c).meta
                     ELSE {c.declared}])

\* lines 63-74: what the two getattr find in the module's namespace after the
\* import or reload, as the candidate the rest of the load deals with, and
\* the first thing that goes wrong: the run, the check of line 65, the
\* constructor (line 68), or the store under a declared id that cannot be
\* hashed (line 74, "bad_id").
Found(mods, c) ==
  LET ns == Namespace(mods, c) IN
  [mod |-> c.mod, lookup |-> c.lookup,
   fault |-> CASE c.fault = "exit" -> "exit"
               [] RaisesInRun(c) -> "import"
               [] ns.cls = "none" -> "no_class"
               [] ns.meta = {} -> "no_meta"
               [] ns.cls = "raises" -> "ctor"
               [] ns.cls = "exits" -> "ctor_exit"
               [] ns.meta = {{UnhashableId}} -> "bad_id"
               [] OTHER -> "none",
   declared |-> IF ns.meta = {} THEN {} ELSE ValueOf(ns.meta)]

\* sys.modules when the program has started and reload_all has loaded the
\* built-ins.
BuiltinModules == Executed(Executed(EmptyMap, BuiltinCands[1]), BuiltinCands[2])

\* lines 57-68: the import, the two getattr and the check of line 65, and the
\* constructor, for the module as found, raise before anything is stored.
LoadRaises(c) == c.fault \notin {"none", "bad_id"}

\* What is raised then: SystemExit and the like, or an instance of Exception.
RaisedBy(c) ==
  IF c.fault \in {"exit", "ctor_exit"} THEN "BaseException" ELSE "Exception"

\* line 74: a declared id that cannot be hashed raises TypeError at the
\* store, after line 72 has stored the alias.
StoreRaises(c) == c.fault = "bad_id"

\* Mutant: the declared id is ignored.
DeclaredIdIgnored(c) == c.lookup

\* line 69: pid = meta.get("id", plugin_id)
DeclaredId(c) == IF c.declared = {} THEN c.lookup ELSE ValueOf(c.declared)

\* lines 72 and 74: PluginInfo(id=pid, ..., plugin_obj=obj); the object is
\* named by its module.
InfoOf(c) == [id |-> DeclaredId(c), obj |-> c.mod]

\* Mutant: a missing id is answered with the first built-in.
GetWaveletFallback(reg, id) ==
  IF id \in DOMAIN reg THEN {reg[id]}
  ELSE {[id |-> "builtin:cwt_morlet", obj |-> "wavelets.builtins.cwt_morlet"]}

\* get_wavelet, lines 82-83: the info, or None (the empty set).
GetWavelet(reg, id) == IF id \in DOMAIN reg THEN {reg[id]} ELSE {}

\* The registry after a reload_all that found the built-ins only.
BuiltinRegistry ==
  Put(Put(EmptyMap, "builtin:cwt_morlet", InfoOf(BuiltinCands[1])),
      "builtin:dwt_wpt", InfoOf(BuiltinCands[2]))

\* reload_all, line 32, called in the UI thread with ext in plugins/wavelets.
ReloadCall(ext) ==
  /\ ppc = "idle"
  /\ pcands' = BuiltinCands \o ext
  /\ pidx' = 0
  /\ plog' = << >>
  /\ ppc' = "P33"
  /\ UNCHANGED sysmods
  /\ UNCHANGED <<ringVars, engVars, genVars, loopVars>>
  /\ UNCHANGED <<wavVars, elockVars>>
  /\ UNCHANGED unitVars

\* line 33: self.wavelet_plugins.clear()
ReloadClear ==
  /\ ppc = "P33"
  /\ registry' = EmptyMap
  /\ pidx' = 1
  /\ ppc' = "P57"
  /\ UNCHANGED <<pcands, plog, sysmods>>
  /\ UNCHANGED <<gen_running, wav_running, lg, chunkq, latest_chunk, latest_fs, params, wpub>>
  /\ UNCHANGED <<ringVars, engVars, genVars>>
  /\ UNCHANGED <<wavVars, elockVars>>
  /\ UNCHANGED unitVars

\* _load_wavelet_module, lines 56-71 and 76-77, for the candidate in hand: the
\* module is imported or run again; a failure that line 76 catches is logged
\* and the next candidate is taken; one it does not catch leaves
\* _load_wavelet_module, reload_all and the caller of reload_all.
LoadModule ==
  /\ ppc = "P57"
  /\ pidx <= Len(pcands)
  /\ LET mods == Executed(sysmods, pcands[pidx])
         c == Found(mods, pcands[pidx])
     IN /\ sysmods' = mods
        /\ IF LoadRaises(c) /\ ExceptCatches(RaisedBy(c))
           THEN /\ plog' = Append(plog, [level |-> "error", mod |-> c.mod])
                /\ pidx' = pidx + 1
                /\ ppc' = "P57"
           ELSE IF LoadRaises(c)
           THEN /\ ppc' = "raised"
                /\ UNCHANGED <<plog, pidx>>
           ELSE /\ ppc' = IF DeclaredId(c) # c.lookup THEN "P72" ELSE "P74"
                /\ UNCHANGED <<plog, pidx>>
  /\ UNCHANGED pcands
  /\ UNCHANGED <<ringVars, engVars, genVars, loopVars>>
  /\ UNCHANGED <<wavVars, elockVars>>
  /\ UNCHANGED unitVars

\* line 72: the alias under the lookup id
StoreAlias ==
  /\ ppc = "P72"
  /\ registry' = Put(registry, pcands[pidx].lookup, InfoOf(Found(sysmods, pcands[pidx])))
  /\ ppc' = "P74"
  /\ UNCHANGED <<pcands, pidx, plog, sysmods>>
  /\ UNCHANGED <<gen_running, wav_running, lg, chunkq, latest_chunk, latest_fs, params, wpub>>
  /\ UNCHANGED <<ringVars, engVars, genVars>>
  /\ UNCHANGED <<wavVars, elockVars>>
  /\ UNCHANGED unitVars

\* lines 74-75: the entry under the declared id, and the log; a TypeError of
\* the store is caught at line 76 and logged as a failure, the alias of line
\* 72 staying where it is.
StoreMain ==
  /\ ppc = "P74"
  /\ LET c == Found(sysmods, pcands[pidx]) IN
     IF StoreRaises(c)
     THEN /\ registry' = registry
          /\ plog' = Append(plog, [level |-> "error", mod |-> c.mod])
     ELSE /\ registry' = Put(registry, DeclaredId(c), InfoOf(c))
          /\ plog' = Append(plog, [level |-> "info", mod |-> c.mod])
  /\ pidx' = pidx + 1
  /\ ppc' = "P57"
  /\ UNCHANGED <<pcands, sysmods>>
  /\ UNCHANGED <<gen_running, wav_running, lg, chunkq, latest_chunk, latest_fs, params, wpub>>
  /\ UNCHANGED <<ringVars, engVars, genVars>>
  /\ UNCHANGED <<wavVars, elockVars>>
  /\ UNCHANGED unitVars

\* reload_all returns
ReloadReturn ==
  /\ ppc = "P57"
  /\ pidx > Len(pcands)
  /\ ppc' = "done"
  /\ UNCHANGED <<pcands, pidx, plog, sysmods>>
  /\ UNCHANGED <<ringVars, engVars, genVars, loopVars>>
  /\ UNCHANGED <<wavVars, elockVars>>
  /\ UNCHANGED unitVars

\* with self._lock (threading.Lock, params_model.py:10)
ParamsCanEnter(t) == plock = {}

\* list_wavelets()[0].id: the dict lists its keys in the order of their first
\* insertion since the clear, and the first key is the lookup id of the first
\* candidate that loaded (line 72 or 74).  The empty set: nothing is listed.
FirstListedId(reg, cands, mods) ==
  LET ok == {i \in 1..Len(cands) : ~LoadRaises(Found(mods, cands[i]))}
      first == CHOOSE i \in ok : \A j \in ok : i <= j
  IN IF ok = {} THEN {} ELSE {reg[cands[first].lookup].id}

\* on_reload_plugins, line 737: _fill_wavelet_combo (main_window.py:617-621).
\* The combo box is cleared (currentIndexChanged(-1): on_wavelet_changed
\* returns at line 773) and filled; the first addItem makes item 0 current,
\* and on_wavelet_changed (connected at line 606) stores its id with
\* params.set (line 774); its wavelet_params (line 777) is an entry the model
\* does not hold.
ReloadFillCombo ==
  /\ ppc = "done"
  /\ ParamsCanEnter(UI)
  /\ LET id == FirstListedId(registry, pcands, sysmods)
     IN params' = IF id = {} THEN params
                  ELSE [params EXCEPT !.wavelet_plugin_id = ValueOf(id)]
  /\ ppc' = "F624"
  /\ UNCHANGED <<pcands, pidx, plog, sysmods>>
  /\ UNCHANGED <<gen_running, wav_running, lg, chunkq, latest_chunk, latest_fs, registry, wpub>>
  /\ UNCHANGED <<ringVars, engVars, genVars>>
  /\ UNCHANGED <<wavVars, elockVars>>
  /\ UNCHANGED unitVars

\* lines 624-630: the id the model holds is the one just stored, so item 0
\* stays current; line 738, _apply_plugin_default_params (lines 632-640),
\* reads that id and sets wavelet_params; on_reload_plugins returns.
ReloadIdle ==
  /\ ppc = "F624"
  /\ ParamsCanEnter(UI)
  /\ ppc' = "idle"
  /\ UNCHANGED <<pcands, pidx, plog, sysmods>>
  /\ UNCHANGED <<ringVars, engVars, genVars, loopVars>>
  /\ UNCHANGED <<wavVars, elockVars>>
  /\ UNCHANGED unitVars

\* The steps of reload_all.
ReloadAll ==
  \/ \E ext \in ExtLists : ReloadCall(ext)
  \/ ReloadClear
  \/ LoadModule
  \/ StoreAlias
  \/ StoreMain
  \/ ReloadReturn
  \/ ReloadFillCombo
  \/ ReloadIdle

\* ------------------------------------------------------- generation loop
\* What RingBuffer.append makes of the fields when it runs whole: the steps
\* of lines 22-39 in order.
AppendWhole(b, w, f, x) ==
  IF Len(x) = 0 THEN [buf |-> b, write |-> w, filled |-> f]
  ELSE IF Len(x) >= Capacity
  THEN [buf |-> BufOverflow(x), write |-> 0, filled |-> Capacity]
  ELSE [buf |-> IF w + Len(x) <= Capacity
                THEN BufHead(b, w, x)
                ELSE BufTail(BufHead(b, w, x), w, x),
        write |-> WriteAfter(w, Len(x)),
        filled |-> FilledAfter(f, Len(x))]

\* Mutant: the loop goes on whatever the flag says.
GenKeepsRunningAlways == TRUE

\* main_window.py:75: while self._running
GenKeepsRunning == gen_running

\* GeneratorWorker.start, lines 71-73
GenStart ==
  /\ gpc = "start"
  /\ gen_running' = TRUE
  /\ gpc' = "L75"
  /\ UNCHANGED <<wav_running, lg, chunkq, latest_chunk, latest_fs, params, registry, wpub>>
  /\ UNCHANGED <<cap, loc, ret>>
  /\ UNCHANGED <<ringVars, engVars>>
  /\ UNCHANGED <<wavVars, plugVars, elockVars>>
  /\ UNCHANGED unitVars

\* line 75: the flag is read once per iteration; a new iteration starts
\* while the clock lies within the model's range and the UI thread's queue
\* has room.
GenLoopCheck ==
  /\ gpc = "L75"
  /\ IF GenKeepsRunning
     THEN CallAllowed /\ Len(chunkq) < MaxQueue /\ gpc' = "L76"
     ELSE gpc' = "L89"
  /\ UNCHANGED <<cap, loc, ret>>
  /\ UNCHANGED <<ringVars, engVars, loopVars>>
  /\ UNCHANGED <<wavVars, plugVars, elockVars>>
  /\ UNCHANGED unitVars

\* lines 76-77: get_global (signal_engine.py:35-38), under the engine's lock;
\* dt = max(0.001, n / fs) divides by fs.
GenGetGlobal ==
  /\ EngineCanEnter(GEN)
  /\ gpc = "L76"
  /\ lg' = [fs |-> fs, n |-> chunk_size]
  /\ gpc' = IF fs = 0 THEN "raised" ELSE "L80"
  /\ UNCHANGED <<gen_running, wav_running, chunkq, latest_chunk, latest_fs, params, registry, wpub>>
  /\ UNCHANGED <<cap, loc, ret>>
  /\ UNCHANGED <<ringVars, engVars>>
  /\ UNCHANGED <<wavVars, plugVars, elockVars>>
  /\ UNCHANGED unitVars

\* line 80: is_paused (signal_engine.py:48-50); line 84 calls generate_chunk
GenIsPaused ==
  /\ EngineCanEnter(GEN)
  /\ gpc = "L80"
  /\ gpc' = IF paused THEN "L81" ELSE "E116"
  /\ UNCHANGED <<cap, loc, ret>>
  /\ UNCHANGED <<ringVars, engVars, loopVars>>
  /\ UNCHANGED <<wavVars, plugVars, elockVars>>
  /\ UNCHANGED unitVars

\* lines 81-82: sleep and continue
GenPausedSleep ==
  /\ gpc = "L81"
  /\ gpc' = "L75"
  /\ UNCHANGED <<cap, loc, ret>>
  /\ UNCHANGED <<ringVars, engVars, loopVars>>
  /\ UNCHANGED <<wavVars, plugVars, elockVars>>
  /\ UNCHANGED unitVars

\* line 85: chunk_ready.emit(x, t0, fs), queued for the UI thread
GenEmit ==
  /\ gpc = "ret"
  /\ chunkq' = Append(chunkq, [x |-> ret.x, t0 |-> ret.t0, fs |-> lg.fs])
  /\ gpc' = "L87"
  /\ cap' = NoCap /\ loc' = NoLoc /\ ret' = NoRet
  /\ UNCHANGED <<gen_running, wav_running, lg, latest_chunk, latest_fs, params, registry, wpub>>
  /\ UNCHANGED <<ringVars, engVars>>
  /\ UNCHANGED <<wavVars, plugVars, elockVars>>
  /\ UNCHANGED unitVars

\* line 87: sleep(dt)
GenSleep ==
  /\ gpc = "L87"
  /\ gpc' = "L75"
  /\ UNCHANGED <<cap, loc, ret>>
  /\ UNCHANGED <<ringVars, engVars, loopVars>>
  /\ UNCHANGED <<wavVars, plugVars, elockVars>>
  /\ UNCHANGED unitVars

\* line 89: stopped.emit(), and start returns
GenExit ==
  /\ gpc = "L89"
  /\ gpc' = "done"
  /\ UNCHANGED <<cap, loc, ret>>
  /\ UNCHANGED <<ringVars, engVars, loopVars>>
  /\ UNCHANGED <<wavVars, plugVars, elockVars>>
  /\ UNCHANGED unitVars

\* GeneratorWorker.stop, lines 92-93, called from the UI thread
GenStop ==
  /\ gen_running' = FALSE
  /\ UNCHANGED <<wav_running, lg, chunkq, latest_chunk, latest_fs, params, registry, wpub>>
  /\ UNCHANGED <<ringVars, engVars, genVars>>
  /\ UNCHANGED <<wavVars, plugVars, elockVars>>
  /\ UNCHANGED unitVars

\* The UI thread is in its event loop: it is inside no handler, and the next
\* queued signal can be delivered.
UiInLoop == upc = "idle" /\ epc = "idle" /\ ppc = "idle" /\ hpc = "idle"

\* MainWindow.on_chunk, lines 786-789, in the UI thread, and the call of
\* append (ring_buffer.py:19-23): the chunk is stored as the latest one; an
\* empty chunk returns from append before the lock, any other waits for it.
OnChunkStore ==
  /\ chunkq # << >>
  /\ UiInLoop
  /\ LET m == Head(chunkq)
     IN /\ latest_chunk' = m.x
        /\ latest_fs' = m.fs
        /\ ux' = m.x
        /\ upc' = IF Len(m.x) = 0 THEN "idle" ELSE "A24"
  /\ chunkq' = Tail(chunkq)
  /\ UNCHANGED <<buf, write, filled, ringHolders, wpc, rn, rres, hist, total>>
  /\ UNCHANGED <<gen_running, wav_running, lg, params, registry, wpub>>
  /\ UNCHANGED <<engVars, genVars>>
  /\ UNCHANGED <<wavVars, plugVars, elockVars>>
  /\ UNCHANGED unitVars

\* line 790, ring_buffer.py:24-39: the with block of append runs whole, once
\* the lock is free, and on_chunk returns.
OnChunkAppend ==
  /\ upc = "A24"
  /\ RingCanEnter(UI)
  /\ LET r == AppendWhole(buf, write, filled, ux)
     IN /\ buf' = r.buf /\ write' = r.write /\ filled' = r.filled
        /\ hist' = hist \o ux
        /\ total' = total + Len(ux)
  /\ upc' = "idle"
  /\ UNCHANGED <<ringHolders, ux, wpc, rn, rres>>
  /\ UNCHANGED loopVars
  /\ UNCHANGED <<engVars, genVars>>
  /\ UNCHANGED <<wavVars, plugVars, elockVars>>
  /\ UNCHANGED unitVars

\* MainWindow.on_chunk, lines 786-790
OnChunk == OnChunkStore \/ OnChunkAppend

\* The steps of the generation thread.
GenLoop ==
  \/ GenStart
  \/ GenLoopCheck
  \/ GenGetGlobal
  \/ GenIsPaused
  \/ GenPausedSleep
  \/ Capture
  \/ ReadClock
  \/ GenerateEnter
  \/ GenerateOne
  \/ Finish
  \/ GenEmit
  \/ GenSleep
  \/ GenExit

\* --------------------------------------------------------- analysis loop
\* Mutant: the window length has no upper clamp.
WindowLenUnclamped(p) == Max(MinWindow, p.view_window_sec * ValueOf(p.fs))

\* main_window.py:119: n = min(MAX_WAVELET_SAMPLES, int(max(16, window_sec * fs)))
WindowLen(p) ==
  Min(MAX_WAVELET_SAMPLES, Max(MinWindow, p.view_window_sec * ValueOf(p.fs)))

\* line 117: float(snap.get("fs", 2000.0)) raises on a value that is not a
\* number (None here, the empty set).
SnapshotRaises(p) == p.fs = {}

\* ParamsModel.set (params_model.py:17-20), under the model's lock; the
\* value is stored as given.
ParamsSet(k, v) ==
  /\ ParamsCanEnter(UI)
  /\ params' = [params EXCEPT ![k] = v]
  /\ UNCHANGED <<gen_running, wav_running, lg, chunkq, latest_chunk, latest_fs, registry, wpub>>
  /\ UNCHANGED <<ringVars, engVars, genVars>>
  /\ UNCHANGED <<wavVars, plugVars, elockVars>>
  /\ UNCHANGED unitVars

\* WaveletWorker.start, line 112
WavStart ==
  /\ wpc = "start"
  /\ wav_running' = TRUE
  /\ wpc' = "W114"
  /\ UNCHANGED <<gen_running, lg, chunkq, latest_chunk, latest_fs, params, registry, wpub>>
  /\ UNCHANGED <<buf, write, filled, ringHolders, upc, ux, rn, rres, hist, total>>
  /\ UNCHANGED <<engVars, genVars>>
  /\ UNCHANGED <<wavVars, plugVars, elockVars>>
  /\ UNCHANGED unitVars

\* line 114: while self._running
WavLoopCheck ==
  /\ wpc = "W114"
  /\ wpc' = IF wav_running THEN "W115" ELSE "done"
  /\ UNCHANGED <<buf, write, filled, ringHolders, upc, ux, rn, rres, hist, total>>
  /\ UNCHANGED <<engVars, genVars, loopVars>>
  /\ UNCHANGED <<wavVars, plugVars, elockVars>>
  /\ UNCHANGED unitVars

\* lines 115-123: one snapshot of the parameters (params_model.py:22-25), the
\* window length, and the call of get_last(n).  The conversions of lines
\* 117-120 are outside the try: a malformed value ends start().
WavSnapshot ==
  /\ wpc = "W115"
  /\ wpub' = << >>
  /\ IF SnapshotRaises(params)
     THEN wpc' = "raised" /\ wsnap' = wsnap /\ rn' = rn
     ELSE wpc' = "R43" /\ wsnap' = params /\ rn' = WindowLen(params)
  /\ UNCHANGED winfo
  /\ UNCHANGED <<gen_running, wav_running, lg, chunkq, latest_chunk, latest_fs, params, registry>>
  /\ UNCHANGED <<buf, write, filled, ringHolders, upc, ux, rres, hist, total>>
  /\ UNCHANGED <<engVars, genVars>>
  /\ UNCHANGED <<plugVars, elockVars>>
  /\ UNCHANGED unitVars

\* line 123, ring_buffer.py:43-50: get_last leaves its with block and returns
\* to the loop.
WavGotLast ==
  /\ wpc = "R50"
  /\ ringHolders' = ringHolders \ {WAV}
  /\ wpc' = "W124"
  /\ UNCHANGED <<wsnap, winfo>>
  /\ UNCHANGED <<buf, write, filled, upc, ux, rn, rres, hist, total>>
  /\ UNCHANGED <<engVars, genVars, loopVars>>
  /\ UNCHANGED <<plugVars, elockVars>>
  /\ UNCHANGED unitVars

\* line 124: get_wavelet (plugin_manager.py:82-83) reads the registry as it
\* is now; lines 125-126 publish a status for an absent plugin.
WavLookup ==
  /\ wpc = "W124"
  /\ UNCHANGED ringHolders
  /\ winfo' = GetWavelet(registry, wsnap.wavelet_plugin_id)
  /\ IF winfo' # {}
     THEN /\ wpc' = "W130"
          /\ wpub' = wpub
     ELSE /\ wpc' = "W135"
          /\ wpub' = Append(wpub, "status: plugin not found")
  /\ UNCHANGED wsnap
  /\ UNCHANGED <<gen_running, wav_running, lg, chunkq, latest_chunk, latest_fs, params, registry>>
  /\ UNCHANGED <<buf, write, filled, upc, ux, rn, rres, hist, total>>
  /\ UNCHANGED <<engVars, genVars>>
  /\ UNCHANGED <<plugVars, elockVars>>
  /\ UNCHANGED unitVars

\* lines 128-130: the plugin's transform returns a result, or raises; what
\* line 132 does not catch leaves start().
WavTransform(out) ==
  /\ wpc = "W130"
  /\ wpc' = IF out = "returns" THEN "W131"
            ELSE IF ExceptCatches(out) THEN "W133" ELSE "raised"
  /\ UNCHANGED <<wsnap, winfo>>
  /\ UNCHANGED <<buf, write, filled, ringHolders, upc, ux, rn, rres, hist, total>>
  /\ UNCHANGED <<engVars, genVars, loopVars>>
  /\ UNCHANGED <<plugVars, elockVars>>
  /\ UNCHANGED unitVars

\* line 131: result_ready.emit(res)
WavPublish ==
  /\ wpc = "W131"
  /\ wpub' = Append(wpub, "result")
  /\ wpc' = "W135"
  /\ UNCHANGED <<wsnap, winfo>>
  /\ UNCHANGED <<gen_running, wav_running, lg, chunkq, latest_chunk, latest_fs, params, registry>>
  /\ UNCHANGED <<buf, write, filled, ringHolders, upc, ux, rn, rres, hist, total>>
  /\ UNCHANGED <<engVars, genVars>>
  /\ UNCHANGED <<plugVars, elockVars>>
  /\ UNCHANGED unitVars

\* lines 132-133: except Exception: status.emit
WavExcept ==
  /\ wpc = "W133"
  /\ wpub' = Append(wpub, "status: wavelet error")
  /\ wpc' = "W135"
  /\ UNCHANGED <<wsnap, winfo>>
  /\ UNCHANGED <<gen_running, wav_running, lg, chunkq, latest_chunk, latest_fs, params, registry>>
  /\ UNCHANGED <<buf, write, filled, ringHolders, upc, ux, rn, rres, hist, total>>
  /\ UNCHANGED <<engVars, genVars>>
  /\ UNCHANGED <<plugVars, elockVars>>
  /\ UNCHANGED unitVars

\* line 135: sleep(1 / fps)
WavSleep ==
  /\ wpc = "W135"
  /\ wpc' = "W114"
  /\ UNCHANGED <<buf, write, filled, ringHolders, upc, ux, rn, rres, hist, total>>
  /\ UNCHANGED <<engVars, genVars, loopVars>>
  /\ UNCHANGED <<wavVars, plugVars, elockVars>>
  /\ UNCHANGED unitVars

\* WaveletWorker.stop, lines 138-139, called from the UI thread
WavStop ==
  /\ wav_running' = FALSE
  /\ UNCHANGED <<gen_running, lg, chunkq, latest_chunk, latest_fs, params, registry, wpub>>
  /\ UNCHANGED <<ringVars, engVars, genVars>>
  /\ UNCHANGED <<wavVars, plugVars, elockVars>>
  /\ UNCHANGED unitVars

\* The steps of the analysis thread.
WavLoop ==
  \/ WavStart
  \/ WavLoopCheck
  \/ WavSnapshot
  \/ GetLastLock
  \/ GetLastRead
  \/ WavGotLast
  \/ WavLookup
  \/ \E out \in TransformOutcomes : WavTransform(out)
  \/ WavPublish
  \/ WavExcept
  \/ WavSleep

\* ------------------------------------------------------------ ParamsModel
MaxSnaps == 2

\* Mutant: snapshot returns the model's own dict.
DictSame(d) == [own |-> FALSE, val |-> d]

\* dict(self._data), line 25: a new dict with the keys and values of the
\* argument.  own tells the holder's dict from _data itself.
DictCopy(d) == [own |-> TRUE, val |-> d]

\* What the holder of a returned dict reads in it.
SnapValue(r) == IF r.own THEN r.val ELSE params

\* ParamsModel.snapshot, line 23: the lock is taken.
SnapLock ==
  /\ spc = "idle"
  /\ Len(sret) < MaxSnaps
  /\ ParamsCanEnter(WAV)
  /\ plock' = {WAV}
  /\ scopy' = [k \in {} |-> 0]
  /\ spc' = "S25"
  /\ UNCHANGED sret
  /\ UNCHANGED <<ringVars, appVars, clkVars, cmpVars, trVars, moreVars>>

\* line 25: dict(...) copies one item after another.
SnapCopy ==
  /\ spc = "S25"
  /\ DOMAIN scopy # DOMAIN params
  /\ LET k == CHOOSE x \in DOMAIN params \ DOMAIN scopy : TRUE IN
       scopy' = [x \in DOMAIN scopy \cup {k} |-> IF x = k THEN params[k] ELSE scopy[x]]
  /\ UNCHANGED <<plock, spc, sret>>
  /\ UNCHANGED <<ringVars, appVars, clkVars, cmpVars, trVars, moreVars>>

\* line 25: the dict is returned and the with block left.
SnapReturn ==
  /\ spc = "S25"
  /\ DOMAIN scopy = DOMAIN params
  /\ sret' = Append(sret, DictCopy(scopy))
  /\ plock' = plock \ {WAV}
  /\ scopy' = << >>
  /\ spc' = "idle"
  /\ UNCHANGED <<ringVars, appVars, clkVars, cmpVars, trVars, moreVars>>

ParInit == plock = {} /\ spc = "idle" /\ scopy = << >> /\ sret = << >>

\* ---------------------------------------------------------- RealtimeClock
MaxClock == 4
ClockThreads == {GEN, T2}
AdvanceArgs == {-1, 1, 2}
NoClockLocals == [n |-> 0, tmp |-> 0, ret |-> 0]

\* Mutant: advance does not take the lock.
ClockCanEnterFree(t) == TRUE

\* with self._lock (threading.Lock, realtime_clock.py:8)
ClockCanEnter(t) == clock_lock = {}

\* The engine fields and everything else a method of the clock leaves alone.
ClockFrame ==
  /\ UNCHANGED <<fs, chunk_size, amplitude_clip, paused, components, heap, chunk_buf>>
  /\ UNCHANGED <<ringVars, genVars, loopVars, wavVars, plugVars, elockVars>>
  /\ UNCHANGED <<parVars, cmpVars, trVars, moreVars>>

\* advance, lines 16-17: the lock is taken
AdvanceLock(t, n) ==
  /\ cpc[t] = "idle"
  /\ ClockCanEnter(t)
  /\ samples + n \in (0 - 1)..MaxClock
  /\ csum + n \in (0 - 1)..MaxClock
  /\ clock_lock' = clock_lock \cup {t}
  /\ cloc' = [cloc EXCEPT ![t].n = n]
  /\ cpc' = [cpc EXCEPT ![t] = "K18"]
  /\ UNCHANGED <<samples, csum>>
  /\ ClockFrame

\* line 18, self._samples += int(n_samples): the field is read
AdvanceRead(t) ==
  /\ cpc[t] = "K18"
  /\ cloc' = [cloc EXCEPT ![t].tmp = samples]
  /\ cpc' = [cpc EXCEPT ![t] = "K18w"]
  /\ UNCHANGED <<samples, csum, clock_lock>>
  /\ ClockFrame

\* line 18: the sum is stored, the with block is left
AdvanceWrite(t) ==
  /\ cpc[t] = "K18w"
  /\ samples' = cloc[t].tmp + cloc[t].n
  /\ csum' = csum + cloc[t].n
  /\ clock_lock' = clock_lock \ {t}
  /\ cpc' = [cpc EXCEPT ![t] = "idle"]
  /\ cloc' = [cloc EXCEPT ![t].n = 0, ![t].tmp = 0]
  /\ ClockFrame

\* reset, lines 11-14 (the start time of line 13 is not part of the model)
ClockReset ==
  /\ ClockCanEnter(UI)
  /\ samples' = 0
  /\ csum' = 0
  /\ UNCHANGED <<clock_lock, cpc, cloc>>
  /\ ClockFrame

\* sample_index, lines 20-22
SampleIndex(t) ==
  /\ cpc[t] = "idle"
  /\ ClockCanEnter(t)
  /\ cloc' = [cloc EXCEPT ![t].ret = samples]
  /\ UNCHANGED <<samples, csum, clock_lock, cpc>>
  /\ ClockFrame

ClkInit ==
  /\ clock_lock = {}
  /\ cpc = [t \in ClockThreads |-> "idle"]
  /\ cloc = [t \in ClockThreads |-> NoClockLocals]
  /\ csum = 0

\* ------------------------------------------------------ built-in transforms
\* dwt_wpt.py:138, if n < 16
MinUsable == 16

\* A WaveletResult as far as its image goes: the number of rows and columns
\* and whether every cell is zero; raised tells a call that raised instead.
Image(rows, cols, zero) == [raised |-> FALSE, rows |-> rows, cols |-> cols, zero |-> zero]
Raised == [raised |-> TRUE, rows |-> 0, cols |-> 0, zero |-> TRUE]

\* cwt_morlet.py:17-25, _freq_grid: n = int(max(2, n)) rows
FreqGridLen(n_freqs) == Max(2, n_freqs)

\* cwt_morlet.py:115-172.  No length is tested: pywt.cwt is given the window
\* as it is and returns one row for each frequency of the grid, as long as
\* the window; the magnitudes are zero where the window is.  lib_raises
\* tells whether pywt.cwt refuses an empty window, which the source leaves
\* to the library.
CwtTransform(n, flat, n_freqs, lib_raises) ==
  IF n = 0 /\ lib_raises THEN Raised
  ELSE Image(FreqGridLen(n_freqs), n, flat \/ n = 0)

\* list[:k]: the number of elements a slice keeps of a list of len elements.
SliceLen(len, k) == IF k >= 0 THEN Min(k, len) ELSE Max(len + k, 0)

\* dwt_wpt.py:176-199: the nodes shown in mode "WPT".  The level has
\* 2 ^ min(wpt_level, maxlevel) nodes; wpt_nodes, when not empty, keeps those
\* it names (nodes is {} for an empty wpt_nodes and {m} when it names m of
\* them); wpt_select = "top_energy" keeps the first top_k of the kept nodes
\* in order of energy.
WptSelected(maxlevel, wpt_level, nodes, select, top_k) ==
  LET all == 2 ^ Min(wpt_level, maxlevel)
      named == IF nodes = {} THEN all ELSE Min(ValueOf(nodes), all)
  IN IF select = "top_energy" THEN SliceLen(named, top_k) ELSE named

\* dwt_wpt.py:135-140: a window of fewer than 16 samples gives one row of
\* max(n, 1) zeros.  Lines 148-174 (mode "DWT"): one row for each of the
\* maxlevel detail levels, and one more for the approximation with
\* show_approx, each as long as the window.  Lines 176-219 (any other mode,
\* "WPT" by default): one row for each node selected, and one row of zeros
\* when none is (lines 208-210).  The image is zero for a window of zeros
\* (lines 166-169, 213-216 and the normalisation of lines 222-230 leave zeros
\* as they are), when no node is selected, and when the coefficients shown
\* vanish for the window given (vanish: the details of a constant window,
\* for one), which the source leaves to the library.
DwtTransform(n, flat, maxlevel, mode, wpt_level, show_approx, nodes, select, top_k, vanish) ==
  IF n < MinUsable THEN Image(1, Max(n, 1), TRUE)
  ELSE IF mode = "DWT"
       THEN Image(maxlevel + (IF show_approx THEN 1 ELSE 0), n, flat \/ vanish)
       ELSE LET sel == WptSelected(maxlevel, wpt_level, nodes, select, top_k)
            IN Image(Max(sel, 1), n, flat \/ vanish \/ sel = 0)

\* WaveletPlugin.transform of the plugin chosen
Transform(a, lib_raises, vanish) ==
  IF a.plugin = "builtin:cwt_morlet"
  THEN CwtTransform(a.n, a.flat, a.level, lib_raises)
  ELSE DwtTransform(a.n, a.flat, a.level, a.mode, a.wpt_level, a.show_approx,
                    a.nodes, a.select, a.top_k, vanish)

TransformCall ==
  /\ tres = << >>
  /\ \E lib_raises \in BOOLEAN, vanish \in BOOLEAN :
       tres' = <<Transform(targ, lib_raises, vanish)>>
  /\ UNCHANGED targ
  /\ UNCHANGED <<ringVars, appVars, parVars, clkVars, cmpVars, moreVars>>

\* No call of generate or transform on its own.
CmpInit == garg = << >> /\ gres = << >>
TrInit == targ = << >> /\ tres = << >>

\* --------------------------------------------- MainWindow.on_global_changed
\* main_window.py:174 and :752: the history kept, in seconds.
HistorySeconds == 60

\* RingBuffer.__init__ (ring_buffer.py:6-11): a buffer of the given capacity
\* with nothing filled and a mutex of its own.  A buffer object is carried
\* as its capacity, the samples it holds, oldest first, and the threads that
\* hold its mutex.
RingNew(c) == [capacity |-> c, held |-> << >>, lock |-> {}]

\* append (ring_buffer.py:19-39): the buffer holds the last `capacity` samples
\* of what it held followed by x.
RingAppended(r, x) == [r EXCEPT !.held = LastK(r.held \o x, r.capacity)]

\* get_last (ring_buffer.py:41-50): the last min(n, filled) samples.
RingLast(r, n) == IF n <= 0 THEN << >> ELSE LastK(r.held, n)

\* on_global_changed, lines 742-744: the values of the three spin boxes.
GlobalChangedCall(f, c, w) ==
  /\ hpc = "idle"
  /\ Len(rings) < MaxRings
  /\ harg' = [fs |-> f, chunk |-> c, window |-> w]
  /\ hpc' = "H746"
  /\ UNCHANGED <<rings, mw_ring, ww_ring, wring>>
  /\ UNCHANGED <<parVars, clkVars, cmpVars, trVars, tone, tgen, lk>>
  /\ UNCHANGED <<ringVars, appVars>>

\* line 746: self.params.set("fs", fs)
GlobalParamsFs ==
  /\ hpc = "H746"
  /\ ParamsCanEnter(UI)
  /\ params' = [params EXCEPT !.fs = {harg.fs}]
  /\ hpc' = "H747"
  /\ UNCHANGED <<rings, mw_ring, ww_ring, wring, harg>>
  /\ UNCHANGED <<parVars, clkVars, cmpVars, trVars, tone, tgen, lk>>
  /\ UNCHANGED <<gen_running, wav_running, lg, chunkq, latest_chunk, latest_fs, registry, wpub>>
  /\ UNCHANGED <<ringVars, engVars, genVars, wavVars, plugVars, elockVars>>

\* lines 747-748: self.params.set("chunk_size", chunk), an entry no thread
\* reads, and self.params.set("view_window_sec", window)
GlobalParamsWindow ==
  /\ hpc = "H747"
  /\ ParamsCanEnter(UI)
  /\ params' = [params EXCEPT !.view_window_sec = harg.window]
  /\ hpc' = "H751"
  /\ UNCHANGED <<rings, mw_ring, ww_ring, wring, harg>>
  /\ UNCHANGED <<parVars, clkVars, cmpVars, trVars, tone, tgen, lk>>
  /\ UNCHANGED <<gen_running, wav_running, lg, chunkq, latest_chunk, latest_fs, registry, wpub>>
  /\ UNCHANGED <<ringVars, engVars, genVars, wavVars, plugVars, elockVars>>

\* line 751: self.engine.set_global(fs=fs, chunk_size=chunk)
\* (signal_engine.py:26-31), whole under the engine's lock
GlobalSetEngine ==
  /\ hpc = "H751"
  /\ EngineCanEnter(UI)
  /\ fs' = harg.fs
  /\ chunk_size' = harg.chunk
  /\ hpc' = "H752"
  /\ UNCHANGED <<rings, mw_ring, ww_ring, wring, harg>>
  /\ UNCHANGED <<parVars, clkVars, cmpVars, trVars, tone, tgen, lk>>
  /\ UNCHANGED <<amplitude_clip, paused, components, heap, chunk_buf, samples>>
  /\ UNCHANGED <<ringVars, genVars, loopVars, wavVars, plugVars, elockVars>>

\* line 752: self.ring = RingBuffer(capacity=int(fs * 60))
GlobalNewRing ==
  /\ hpc = "H752"
  /\ rings' = Append(rings, RingNew(HistorySeconds * harg.fs))
  /\ mw_ring' = Len(rings) + 1
  /\ hpc' = "H754"
  /\ UNCHANGED <<ww_ring, wring, harg>>
  /\ UNCHANGED <<parVars, clkVars, cmpVars, trVars, tone, tgen, lk>>
  /\ UNCHANGED <<ringVars, appVars>>

\* Mutant: the worker's buffer is not rebound.
GlobalRebindSkipped ==
  /\ hpc = "H754"
  /\ ww_ring' = ww_ring
  /\ hpc' = "idle"
  /\ UNCHANGED <<rings, mw_ring, wring, harg>>
  /\ UNCHANGED <<parVars, clkVars, cmpVars, trVars, tone, tgen, lk>>
  /\ UNCHANGED <<ringVars, appVars>>

\* line 754: self.wav_worker.ring = self.ring; the handler returns
GlobalRebind ==
  /\ hpc = "H754"
  /\ ww_ring' = mw_ring
  /\ hpc' = "idle"
  /\ UNCHANGED <<rings, mw_ring, wring, harg>>
  /\ UNCHANGED <<parVars, clkVars, cmpVars, trVars, tone, tgen, lk>>
  /\ UNCHANGED <<ringVars, appVars>>

\* The steps of on_global_changed.
OnGlobalChanged ==
  \/ \E f \in FsSet, c \in {2}, w \in {4} : GlobalChangedCall(f, c, w)
  \/ GlobalParamsFs
  \/ GlobalParamsWindow
  \/ GlobalSetEngine
  \/ GlobalNewRing
  \/ GlobalRebind

\* on_chunk (main_window.py:786-789), run by the UI thread between its other
\* handlers with a chunk of n fresh samples made at rate f: the chunk is
\* stored as the latest one and append is called (ring_buffer.py:19-23).
OnChunkRingStore(n, f) ==
  /\ UiInLoop
  /\ total + n <= MaxTotal
  /\ latest_chunk' = Batch(n)
  /\ latest_fs' = f
  /\ ux' = Batch(n)
  /\ upc' = IF n = 0 THEN "idle" ELSE "A24"
  /\ UNCHANGED <<rings, mw_ring, ww_ring, wring, hpc, harg>>
  /\ UNCHANGED <<parVars, clkVars, cmpVars, trVars, tone, tgen, lk>>
  /\ UNCHANGED <<gen_running, wav_running, lg, chunkq, params, registry, wpub>>
  /\ UNCHANGED <<buf, write, filled, ringHolders, wpc, rn, rres, hist, total>>
  /\ UNCHANGED <<engVars, genVars, wavVars, plugVars, elockVars>>

\* line 790, ring_buffer.py:24-39: the with block of append on the buffer
\* self.ring names, whole; on_chunk returns.
OnChunkRingAppend ==
  /\ upc = "A24"
  /\ rings' = [rings EXCEPT ![mw_ring] = RingAppended(@, ux)]
  /\ total' = total + Len(ux)
  /\ upc' = "idle"
  /\ UNCHANGED <<mw_ring, ww_ring, wring, hpc, harg>>
  /\ UNCHANGED <<parVars, clkVars, cmpVars, trVars, tone, tgen, lk>>
  /\ UNCHANGED loopVars
  /\ UNCHANGED <<buf, write, filled, ringHolders, ux, wpc, rn, rres, hist>>
  /\ UNCHANGED <<engVars, genVars, wavVars, plugVars, elockVars>>

\* on_chunk, lines 786-790, with the buffers of on_global_changed
OnChunkRing(n, f) == OnChunkRingStore(n, f) \/ OnChunkRingAppend

\* WaveletWorker.start, line 123: the worker reads its attribute self.ring;
\* the buffer it names now is the one get_last will be called on.
WavReadRing ==
  /\ wpc = "R43"
  /\ wring' = ww_ring
  /\ wpc' = "W123"
  /\ UNCHANGED <<wsnap, winfo>>
  /\ UNCHANGED <<rings, mw_ring, ww_ring, hpc, harg>>
  /\ UNCHANGED <<parVars, clkVars, cmpVars, trVars, tone, tgen, lk>>
  /\ UNCHANGED loopVars
  /\ UNCHANGED <<buf, write, filled, ringHolders, upc, ux, rn, rres, hist, total>>
  /\ UNCHANGED <<engVars, genVars, plugVars, elockVars>>

\* line 123: get_last(n) (ring_buffer.py:41-50, whole under that buffer's own
\* lock) on the buffer read, with the n of the snapshot taken before.
WavGetLastRing ==
  /\ wpc = "W123"
  /\ rres' = RingLast(rings[wring], rn)
  /\ wpc' = "W124"
  /\ UNCHANGED wring
  /\ UNCHANGED <<wsnap, winfo>>
  /\ UNCHANGED <<rings, mw_ring, ww_ring, hpc, harg>>
  /\ UNCHANGED <<parVars, clkVars, cmpVars, trVars, tone, tgen, lk>>
  /\ UNCHANGED loopVars
  /\ UNCHANGED <<buf, write, filled, ringHolders, upc, ux, rn, hist, total>>
  /\ UNCHANGED <<engVars, genVars, plugVars, elockVars>>

\* MainWindow.__init__, lines 174 and 678: one buffer of 60 s at the initial
\* rate, named by the window and by the worker.
RbInit ==
  /\ rings = <<RingNew(HistorySeconds * fs)>>
  /\ mw_ring = 1 /\ ww_ring = 1 /\ wring = 0
  /\ hpc = "idle" /\ harg = << >>

\* ------------------------------------------------- MainWindow.closeEvent
\* closeEvent, lines 696-697: self.gen_worker.stop(), a direct call from the
\* UI thread (GeneratorWorker.stop, lines 92-93)
CloseStopGen ==
  /\ hpc = "idle"
  /\ gen_running' = FALSE
  /\ hpc' = "X698"
  /\ UNCHANGED <<rings, mw_ring, ww_ring, wring, harg, tone, tgen, lk>>
  /\ UNCHANGED <<parVars, clkVars, cmpVars, trVars>>
  /\ UNCHANGED <<wav_running, lg, chunkq, latest_chunk, latest_fs, params, registry, wpub>>
  /\ UNCHANGED <<ringVars, engVars, genVars, wavVars, plugVars, elockVars>>

\* line 698: self.wav_worker.stop() (WaveletWorker.stop, lines 138-139)
CloseStopWav ==
  /\ hpc = "X698"
  /\ wav_running' = FALSE
  /\ hpc' = "X699"
  /\ UNCHANGED <<rings, mw_ring, ww_ring, wring, harg, tone, tgen, lk>>
  /\ UNCHANGED <<parVars, clkVars, cmpVars, trVars>>
  /\ UNCHANGED <<gen_running, lg, chunkq, latest_chunk, latest_fs, params, registry, wpub>>
  /\ UNCHANGED <<ringVars, engVars, genVars, wavVars, plugVars, elockVars>>

\* lines 699-706: quit() on both threads, which a thread inside start() does
\* not look at, and wait(3000) on each, which returns after 3 s at the
\* latest; the window is closed.
CloseWait ==
  /\ hpc = "X699"
  /\ hpc' = "closed"
  /\ UNCHANGED <<rings, mw_ring, ww_ring, wring, harg, tone, tgen, lk>>
  /\ UNCHANGED <<parVars, clkVars, cmpVars, trVars>>
  /\ UNCHANGED <<ringVars, appVars>>

\* The steps of closeEvent.
CloseEvent ==
  \/ CloseStopGen
  \/ CloseStopWav
  \/ CloseWait

\* ---------------------------------------------------- MainWindow.on_start
\* on_start, line 711: self.engine.reset() (signal_engine.py:52-54), asked
\* for while the ring buffer has taken fewer than MaxSamples samples
StartReset ==
  /\ hpc = "idle"
  /\ total < MaxSamples
  /\ EngineCanEnter(UI)
  /\ samples' = 0
  /\ hpc' = "S712"
  /\ UNCHANGED <<rings, mw_ring, ww_ring, wring, harg, tone, tgen, lk>>
  /\ UNCHANGED <<parVars, clkVars, cmpVars, trVars>>
  /\ UNCHANGED <<fs, chunk_size, amplitude_clip, paused, components, heap, chunk_buf>>
  /\ UNCHANGED <<ringVars, genVars, loopVars, wavVars, plugVars, elockVars>>

\* line 712: self.ring.clear() (ring_buffer.py:13-17), whole under the
\* ring's lock
StartClear ==
  /\ hpc = "S712"
  /\ RingCanEnter(UI)
  /\ buf' = Zeros(Capacity) /\ write' = 0 /\ filled' = 0
  /\ hist' = << >>
  /\ hpc' = "S716"
  /\ UNCHANGED <<rings, mw_ring, ww_ring, wring, harg, tone, tgen, lk>>
  /\ UNCHANGED <<parVars, clkVars, cmpVars, trVars>>
  /\ UNCHANGED <<ringHolders, upc, ux, wpc, rn, rres, total>>
  /\ UNCHANGED appVars

\* lines 716-718: self.engine.play() (signal_engine.py:40-42); the handler
\* returns
StartPlay ==
  /\ hpc = "S716"
  /\ EngineCanEnter(UI)
  /\ paused' = FALSE
  /\ hpc' = "idle"
  /\ UNCHANGED <<rings, mw_ring, ww_ring, wring, harg, tone, tgen, lk>>
  /\ UNCHANGED <<parVars, clkVars, cmpVars, trVars>>
  /\ UNCHANGED <<fs, chunk_size, amplitude_clip, components, heap, chunk_buf, samples>>
  /\ UNCHANGED <<ringVars, genVars, loopVars, wavVars, plugVars, elockVars>>

\* The steps of on_start.
OnStart ==
  \/ StartReset
  \/ StartClear
  \/ StartPlay

\* ------------------------------------------------------------ the mutexes
\* The mutexes (threading.Lock): the engine's (signal_engine.py:15), the
\* clock's (realtime_clock.py:8), the parameters' (params_model.py:10), and
\* one for every RingBuffer constructed (ring_buffer.py:11), the i-th of them
\* carried as id i.
Mutex(of, id) == [of |-> of, id |-> id]
Mutexes ==
  {Mutex("engine", 0), Mutex("clock", 0), Mutex("params", 0)}
    \cup {Mutex("ring", i) : i \in DOMAIN rings}
LockThreads == {GEN, WAV, UI}
Acq(m) == [do |-> "acq", mutex |-> m]
Rel(m) == [do |-> "rel", mutex |-> m]
Emit == [do |-> "emit", mutex |-> "none"]

\* Mutant: reset takes the clock's mutex first and the engine's inside it.
LockingClockFirst(op) ==
  CASE op = "generate_chunk" ->
         <<Acq("engine"), Rel("engine"), Acq("clock"), Rel("clock"),
           Acq("clock"), Rel("clock")>>
    [] op = "generate_chunk_paused" ->
         <<Acq("engine"), Rel("engine"), Acq("clock"), Rel("clock")>>
    [] op = "reset" -> <<Acq("clock"), Acq("engine"), Rel("engine"), Rel("clock")>>
    [] op = "engine" -> <<Acq("engine"), Rel("engine")>>
    [] op \in {"clear", "append", "get_last"} -> <<Acq("ring"), Rel("ring")>>
    [] op = "append_empty" -> << >>
    [] op = "params" -> <<Acq("params"), Rel("params")>>
    [] op = "set" -> <<Acq("params"), Rel("params"), Emit>>

\* What a method does with the mutexes, in order:
\* generate_chunk of a playing engine (signal_engine.py:116-121 with the
\* engine's, line 123 sample_index and line 136 advance with the clock's,
\* realtime_clock.py:16-22); generate_chunk of a paused engine, which
\* returns at line 126, before advance;
\* reset (signal_engine.py:52-54: the engine's, and inside it clock.reset with
\* the clock's, realtime_clock.py:11-14);
\* every other method of the engine (lines 26-50, 56-112): the engine's only;
\* clear, get_last and append of a chunk that holds samples
\* (ring_buffer.py:13-50): the mutex of the buffer called; append of an empty
\* chunk returns at line 23, before the with block;
\* get and snapshot (params_model.py:13-15, 22-25): the parameters';
\* set (params_model.py:17-20): the parameters', then changed.emit.
Locking(op) ==
  CASE op = "generate_chunk" ->
         <<Acq("engine"), Rel("engine"), Acq("clock"), Rel("clock"),
           Acq("clock"), Rel("clock")>>
    [] op = "generate_chunk_paused" ->
         <<Acq("engine"), Rel("engine"), Acq("clock"), Rel("clock")>>
    [] op = "reset" -> <<Acq("engine"), Acq("clock"), Rel("clock"), Rel("engine")>>
    [] op = "engine" -> <<Acq("engine"), Rel("engine")>>
    [] op \in {"clear", "append", "get_last"} -> <<Acq("ring"), Rel("ring")>>
    [] op = "append_empty" -> << >>
    [] op = "params" -> <<Acq("params"), Rel("params")>>
    [] op = "set" -> <<Acq("params"), Rel("params"), Emit>>

\* The methods each thread calls: the generation loop (main_window.py:76-84),
\* the analysis loop (lines 115-123), and the UI thread's handlers
\* (lines 708-790, and get_last in _ui_update, line 803, and in
\* on_export_signal, line 1200).
LockOps ==
  {"engine", "generate_chunk", "generate_chunk_paused", "reset", "clear", "append",
   "append_empty", "get_last", "params", "set"}
MethodsOf(t) ==
  CASE t = GEN -> {"engine", "generate_chunk", "generate_chunk_paused"}
    [] t = WAV -> {"params", "get_last"}
    [] t = UI -> {"engine", "reset", "clear", "append", "append_empty", "get_last",
                  "params", "set"}

\* The buffer a thread's call is made on: the one its object's attribute
\* names at the call (MainWindow.ring, WaveletWorker.ring).
RingOf(t) == IF t = WAV THEN ww_ring ELSE mw_ring

HoldersOf(m) ==
  CASE m.of = "engine" -> elock
    [] m.of = "clock" -> clock_lock
    [] m.of = "ring" -> rings[m.id].lock
    [] m.of = "params" -> plock

\* The event thread t is at (do = "none" when it is in no method), its mutex
\* the object's the method was called on.
EventOf(t) ==
  IF lk[t].op = "none" THEN [do |-> "none", mutex |-> Mutex("none", 0)]
  ELSE LET e == Locking(lk[t].op)[lk[t].at]
       IN [do |-> e.do,
           mutex |-> Mutex(e.mutex, IF e.mutex = "ring" THEN lk[t].ring ELSE 0)]

\* Thread t calls a method (the UI thread between its handlers); a method
\* without locking step returns at once.
LockCall(t, op) ==
  /\ lk[t].op = "none"
  /\ op \in MethodsOf(t)
  /\ t = UI => hpc = "idle"
  /\ lk' = IF Locking(op) = << >> THEN lk
           ELSE [lk EXCEPT ![t] = [op |-> op, at |-> 1, ring |-> RingOf(t)]]
  /\ UNCHANGED <<elock, clock_lock, ringHolders, plock>>
  /\ UNCHANGED <<buf, write, filled, upc, ux, wpc, rn, rres, hist, total>>
  /\ UNCHANGED <<engVars, genVars, loopVars, wavVars, plugVars, epc, earg, snapres>>
  /\ UNCHANGED <<spc, scopy, sret, cpc, cloc, csum, cmpVars, trVars, rbVars, tone, tgen>>

\* Thread t makes the next locking step of its method: `with` is entered
\* only when no thread holds the mutex; leaving it releases the mutex; after
\* the last step the method returns.
LockStep(t) ==
  /\ lk[t].op # "none"
  /\ LET e == EventOf(t)
         after(m) == IF e.mutex # m THEN HoldersOf(m)
                     ELSE IF e.do = "acq" THEN HoldersOf(m) \cup {t}
                     ELSE HoldersOf(m) \ {t}
     IN /\ e.do = "acq" => HoldersOf(e.mutex) = {}
        /\ elock' = after(Mutex("engine", 0))
        /\ clock_lock' = after(Mutex("clock", 0))
        /\ rings' = [i \in DOMAIN rings |->
                       [rings[i] EXCEPT !.lock = after(Mutex("ring", i))]]
        /\ plock' = after(Mutex("params", 0))
  /\ lk' = [lk EXCEPT ![t] = IF lk[t].at = Len(Locking(lk[t].op))
                              THEN [op |-> "none", at |-> 0, ring |-> 0]
                              ELSE [@ EXCEPT !.at = @ + 1]]
  /\ UNCHANGED <<mw_ring, ww_ring, wring, hpc, harg, tone, tgen, ringHolders>>
  /\ UNCHANGED <<buf, write, filled, upc, ux, wpc, rn, rres, hist, total>>
  /\ UNCHANGED <<engVars, genVars, loopVars, wavVars, plugVars, epc, earg, snapres>>
  /\ UNCHANGED <<spc, scopy, sret, cpc, cloc, csum, cmpVars, trVars>>

\* No thread inside a method.
LkInit == lk = [t \in LockThreads |-> [op |-> "none", at |-> 0, ring |-> 0]]

\* ---------------------------------------------------------- SineComponent
\* The tone's amplitude, frequency, phase and dc are whole multiples of
\* 1/ToneUnit; ToneUnit is a power of two high enough for MaxGenerates
\* halvings of a difference to stay whole.
ToneUnit == 2 ^ MaxGenerates
SmoothKeys == {"amplitude", "frequency", "phase", "dc"}
SmoothSet == {0, 150, 500}

\* Mutant: alpha without the cap at 1.
AlphaUncapped(n, rate, smooth_ms) ==
  IF smooth_ms <= 0 THEN [num |-> 1, den |-> 1]
  ELSE [num |-> 1000 * n, den |-> rate * smooth_ms]

\* sine.py:94: alpha = 1.0 if smooth_ms <= 0 else
\* min(1.0, (n / fs) / (smooth_ms / 1000.0)), as a fraction.
Alpha(n, rate, smooth_ms) ==
  IF smooth_ms <= 0 \/ 1000 * n >= rate * smooth_ms
  THEN [num |-> 1, den |-> 1]
  ELSE [num |-> 1000 * n, den |-> rate * smooth_ms]

\* _smooth, lines 80-83: c + alpha * (t - c)
Smooth(c, t, alpha) == c + (alpha.num * (t - c)) \div alpha.den

\* SineComponent.__init__, lines 70-74: _cur and _target are copies of the
\* parameters the component is constructed with.
NewTone(p) ==
  [enabled |-> TRUE, params |-> p, cur |-> p, target |-> p, fresh |-> TRUE,
   calls |-> 0]

\* The parameters add_component constructs a tone with here.
ToneParams(T) ==
  [amplitude |-> ToneUnit, frequency |-> ToneUnit, phase |-> 0, dc |-> 0,
   smooth_ms |-> T]

\* The dicts update_params is given.
ToneEdits ==
  {[k \in {"amplitude"} |-> 0], [frequency |-> 0, dc |-> ToneUnit],
   [k \in {"smooth_ms"} |-> 0]}

\* The thread that calls generate, outside of it.
ToneIdle ==
  [pc |-> "idle", n |-> 0, rate |-> 1, T |-> 0, alpha |-> [num |-> 1, den |-> 1],
   keys |-> << >>, pre |-> << >>, touched |-> FALSE]

\* Whether a store of update_params lands inside a generate call.
Touched == tgen.touched \/ tgen.pc # "idle"

\* update_params, called by a handler of the UI thread while the generation
\* thread may be inside generate.  Line 77: self._target.update(new_params)
ToneUpdateTarget(new) ==
  /\ hpc = "idle"
  /\ tone' = [tone EXCEPT !.target = DictUpdate(@, new), !.fresh = FALSE]
  /\ tgen' = [tgen EXCEPT !.touched = Touched]
  /\ hpc' = "U78"
  /\ harg' = new
  /\ UNCHANGED <<rings, mw_ring, ww_ring, wring>>
  /\ UNCHANGED <<ringVars, appVars, parVars, clkVars, cmpVars, trVars, lk>>

\* line 78, base.py:31-32: self.state.params.update(new_params)
ToneUpdateParams ==
  /\ hpc = "U78"
  /\ tone' = [tone EXCEPT !.params = DictUpdate(@, harg)]
  /\ tgen' = [tgen EXCEPT !.touched = Touched]
  /\ hpc' = "idle"
  /\ harg' = << >>
  /\ UNCHANGED <<rings, mw_ring, ww_ring, wring>>
  /\ UNCHANGED <<ringVars, appVars, parVars, clkVars, cmpVars, trVars, lk>>

\* update_params, lines 76-78
ToneUpdate(new) == ToneUpdateTarget(new) \/ ToneUpdateParams

\* ComponentState.enabled, as set_component_enabled stores it
\* (signal_engine.py:77), in a handler of the UI thread
ToneSetEnabled(b) ==
  /\ hpc = "idle"
  /\ tone' = [tone EXCEPT !.enabled = b]
  /\ UNCHANGED tgen
  /\ UNCHANGED <<ringVars, appVars, parVars, clkVars, cmpVars, trVars, rbVars, lk>>

\* generate, step by step, for n >= 0 samples at a positive rate: what it
\* does to the component (the samples it returns are SineSample's).  The
\* call is made.
ToneGenerateCall(n, rate) ==
  /\ tgen.pc = "idle"
  /\ tone.calls < MaxGenerates
  /\ tgen' = [ToneIdle EXCEPT !.pc = "S86", !.n = n, !.rate = rate, !.pre = tone.cur]
  /\ tone' = [tone EXCEPT !.calls = @ + 1, !.fresh = FALSE]
  /\ UNCHANGED <<ringVars, appVars, parVars, clkVars, cmpVars, trVars, rbVars, lk>>

\* lines 86-87: a disabled tone returns zeros
ToneReadEnabled ==
  /\ tgen.pc = "S86"
  /\ tgen' = IF tone.enabled THEN [tgen EXCEPT !.pc = "S89"] ELSE ToneIdle
  /\ UNCHANGED tone
  /\ UNCHANGED <<ringVars, appVars, parVars, clkVars, cmpVars, trVars, rbVars, lk>>

\* line 89: smooth_ms is read from the parameters
ToneReadSmooth ==
  /\ tgen.pc = "S89"
  /\ tgen' = [tgen EXCEPT !.pc = "S90", !.T = tone.params.smooth_ms]
  /\ UNCHANGED tone
  /\ UNCHANGED <<ringVars, appVars, parVars, clkVars, cmpVars, trVars, rbVars, lk>>

\* lines 90-94: _cur = dict(_target) when smooth_ms <= 0, and alpha
ToneAlpha ==
  /\ tgen.pc = "S90"
  /\ tone' = [tone EXCEPT !.cur = IF tgen.T <= 0 THEN tone.target ELSE @]
  /\ tgen' = [tgen EXCEPT !.pc = "S96",
                          !.alpha = Alpha(tgen.n, tgen.rate, tgen.T),
                          !.keys = <<"amplitude", "frequency", "phase", "dc">>]
  /\ UNCHANGED <<ringVars, appVars, parVars, clkVars, cmpVars, trVars, rbVars, lk>>

\* lines 96-99, one call of _smooth (lines 80-83): _cur[key] and
\* _target[key] are read and _cur[key] is stored.
ToneSmooth ==
  /\ tgen.pc = "S96"
  /\ LET k == Head(tgen.keys) IN
     tone' = [tone EXCEPT !.cur[k] = Smooth(@, tone.target[k], tgen.alpha)]
  /\ tgen' = [tgen EXCEPT !.keys = Tail(@),
                          !.pc = IF Len(tgen.keys) = 1 THEN "S101" ELSE "S96"]
  /\ UNCHANGED <<ringVars, appVars, parVars, clkVars, cmpVars, trVars, rbVars, lk>>

\* lines 101-108: the samples are computed from _cur and returned
ToneReturn ==
  /\ tgen.pc = "S101"
  /\ tgen' = ToneIdle
  /\ UNCHANGED tone
  /\ UNCHANGED <<ringVars, appVars, parVars, clkVars, cmpVars, trVars, rbVars, lk>>

\* generate, lines 85-108
ToneGenerate(n, rate) ==
  \/ ToneGenerateCall(n, rate)
  \/ ToneReadEnabled
  \/ ToneReadSmooth
  \/ ToneAlpha
  \/ ToneSmooth
  \/ ToneReturn

\* No tone on its own: a placeholder object.
ToneInit == tone = NewTone(ToneParams(150)) /\ tgen = ToneIdle

MoreInit == RbInit /\ ToneInit /\ LkInit

UnitInit == ParInit /\ ClkInit /\ CmpInit /\ TrInit /\ MoreInit

\* ------------------------------------------------------------ specifications
\* SignalEngine.__init__ (lines 13-24) and RealtimeClock.__init__, followed by
\* a set_global(fs, chunk_size): paused, clip off, the clock at 0.
EngineInit ==
  /\ fs \in FsSet
  /\ chunk_size \in ChunkSet
  /\ amplitude_clip = 0
  /\ paused = TRUE
  /\ chunk_buf = Zeros(MAX_CHUNK)
  /\ samples = 0

GenInit == gpc = "idle" /\ cap = NoCap /\ loc = NoLoc /\ ret = NoRet

ThreadsInit ==
  /\ upc = "idle" /\ ux = << >>
  /\ wpc = "idle" /\ rn = 0 /\ rres = << >>

NoComponents == components = << >> /\ heap = << >>

\* GeneratorWorker.__init__ (main_window.py:65-68), WaveletWorker.__init__
\* (:103-108), MainWindow.__init__ (:153-193): the parameters' initial values
\* (fs as the engine's), the built-in plugins loaded, nothing published.
LoopInit ==
  /\ gen_running = FALSE /\ wav_running = FALSE
  /\ lg = [fs |-> 0, n |-> 0]
  /\ chunkq = << >>
  /\ latest_chunk = << >> /\ latest_fs = fs
  /\ params = [fs |-> {fs}, view_window_sec |-> 4,
               wavelet_plugin_id |-> "builtin:cwt_morlet", scalogram_fps |-> 8]
  /\ registry = BuiltinRegistry
  /\ wpub = << >>
  /\ wsnap = params /\ winfo = {}
  /\ ppc = "idle" /\ pcands = BuiltinCands /\ pidx = 3
  /\ sysmods = BuiltinModules
  /\ plog = [i \in 1..2 |-> [level |-> "info", mod |-> BuiltinCands[i].mod]]
  /\ elock = {} /\ epc = "idle" /\ earg = << >> /\ snapres = << >>

\* The ring buffer alone, under a writer and a reader.
InitRing ==
  /\ RingInit /\ ThreadsInit
  /\ EngineInit /\ fs = 4 /\ chunk_size = 2
  /\ NoComponents /\ GenInit /\ LoopInit /\ UnitInit

NextRing ==
  \/ \E n \in 0..MaxBatch : AppendCall(n)
  \/ AppendLock
  \/ AppendStore
  \/ AppendOverflowCursor
  \/ AppendOverflowFilled
  \/ AppendStoreTail
  \/ AppendCursor
  \/ AppendFilled
  \/ AppendUnlock
  \/ ClearLock
  \/ ClearStore
  \/ ClearCursor
  \/ ClearFilled
  \/ \E n \in (0 - 1)..(Capacity + 1) : GetLastCall(n)
  \/ GetLastLock
  \/ GetLastRead
  \/ GetLastReturn

SpecRing == InitRing /\ [][NextRing]_vars

\* The engine's globals and the clock: generate_chunk against play, pause,
\* reset and set_global, over no component or one enabled tone.
InitClock ==
  /\ RingInit /\ ThreadsInit
  /\ EngineInit /\ GenInit /\ LoopInit /\ UnitInit
  /\ \/ NoComponents
     \/ components = <<1>> /\ heap = <<NewObject("sine", TRUE, 2)>>

GenerateChunk ==
  \/ DirectCall
  \/ Capture
  \/ ReadClock
  \/ GenerateEnter
  \/ GenerateOne
  \/ Finish
  \/ DirectReturn

NextClock ==
  \/ GenerateChunk
  \/ Play
  \/ Pause
  \/ Reset
  \/ \E f \in Optional(FsSet), c \in Optional(ChunkSet) : SetGlobal(f, c, {})

SpecClock == InitClock /\ [][NextClock]_vars

\* The amplitude clip: generate_chunk over one tone against set_global(clip),
\* update_component_params and set_component_enabled.
InitClip ==
  /\ RingInit /\ ThreadsInit
  /\ EngineInit /\ fs = 4 /\ chunk_size = 2 /\ GenInit /\ LoopInit /\ UnitInit
  /\ components = <<1>> /\ heap = <<NewObject("sine", TRUE, 2)>>

NextClip ==
  \/ GenerateChunk
  \/ Play
  \/ Pause
  \/ \E a \in Optional(ClipSet) : SetGlobal({}, {}, a)
  \/ \E i \in 0..1, l \in LevelSet : UpdateComponentParams(i, l)
  \/ \E b \in BOOLEAN : SetComponentEnabled(0, b)

SpecClip == InitClip /\ [][NextClip]_vars

\* The component list: generate_chunk against the calls that change it.
InitComps ==
  /\ RingInit /\ ThreadsInit
  /\ EngineInit /\ fs = 4 /\ chunk_size = 2
  /\ NoComponents /\ GenInit /\ LoopInit /\ UnitInit

NextComps ==
  \/ GenerateChunk
  \/ Play
  \/ \E k \in Kinds, b \in BOOLEAN : AddComponent(k, 1, b)
  \/ \E i \in (0 - 1)..MaxObjs : RemoveComponent(i)
  \/ \E i \in (0 - 1)..MaxObjs, b \in BOOLEAN : SetComponentEnabled(i, b)
  \/ \E sn \in Snaps : ReplaceComponents(sn)

SpecComps == InitComps /\ [][NextComps]_vars

\* The generation thread and the UI thread that receives its chunks and
\* plays, pauses and stops.
GenLoopInit == gpc = "start" /\ cap = NoCap /\ loc = NoLoc /\ ret = NoRet

InitLoop ==
  /\ RingInit /\ ThreadsInit
  /\ EngineInit /\ fs = 4 /\ chunk_size = 2 /\ GenLoopInit /\ LoopInit /\ UnitInit
  /\ components = <<1>> /\ heap = <<NewObject("sine", TRUE, 2)>>

NextLoop ==
  \/ GenLoop
  \/ OnChunk
  \/ UiInLoop /\ Play
  \/ UiInLoop /\ Pause
  \/ UiInLoop /\ GenStop

SpecLoop == InitLoop /\ [][NextLoop]_vars

\* Both worker threads and the UI thread; each worker thread keeps being
\* scheduled (its sleeps are finite).
InitStop ==
  /\ RingInit
  /\ upc = "idle" /\ ux = << >>
  /\ wpc = "start" /\ rn = 0 /\ rres = << >>
  /\ EngineInit /\ fs = 4 /\ chunk_size = 2 /\ GenLoopInit /\ LoopInit /\ UnitInit
  /\ components = <<1>> /\ heap = <<NewObject("sine", TRUE, 2)>>

NextStop ==
  \/ GenLoop
  \/ WavLoop
  \/ OnChunk
  \/ UiInLoop /\ Play
  \/ UiInLoop /\ Pause
  \/ UiInLoop /\ GenStop
  \/ UiInLoop /\ WavStop

SpecStop ==
  /\ InitStop /\ [][NextStop]_vars
  /\ WF_vars(GenLoop) /\ WF_vars(WavLoop)

\* Both worker loops while the UI thread changes the engine's globals and the
\* shared parameters, to values that make an iteration fail as well.
ZeroFs == {0, 4}

NextErr ==
  \/ GenLoop
  \/ WavLoop
  \/ OnChunk
  \/ UiInLoop /\ Play
  \/ \E f \in ZeroFs : UiInLoop /\ SetGlobal({f}, {}, {})
  \/ \E v \in {{}, {4}} : UiInLoop /\ ParamsSet("fs", v)
  \/ UiInLoop /\ GenStop
  \/ UiInLoop /\ WavStop

SpecErr == InitStop /\ [][NextErr]_vars

\* The analysis loop alone, while the UI thread selects and reloads plugins.
InitWav ==
  /\ RingInit
  /\ upc = "idle" /\ ux = << >>
  /\ wpc = "start" /\ rn = 0 /\ rres = << >>
  /\ EngineInit /\ fs = 4 /\ chunk_size = 2 /\ GenInit /\ LoopInit /\ UnitInit
  /\ NoComponents

NextWav ==
  \/ WavLoop
  \/ \E id \in PluginIds : UiInLoop /\ ParamsSet("wavelet_plugin_id", id)
  \/ \E ext \in {<< >>, <<ExtCand("a", "none", {})>>} : ReloadCall(ext)
  \/ ReloadClear
  \/ LoadModule
  \/ StoreMain
  \/ ReloadReturn
  \/ ReloadFillCombo
  \/ ReloadIdle
  \/ UiInLoop /\ WavStop

SpecWav == InitWav /\ [][NextWav]_vars

\* The engine's component list under the UI thread's edits and loaded
\* configurations.
InitConfig ==
  /\ RingInit /\ ThreadsInit
  /\ EngineInit /\ fs = 4 /\ chunk_size = 2
  /\ NoComponents /\ GenInit /\ LoopInit /\ UnitInit

NextConfig ==
  \/ \E k \in BUILTIN_COMPONENTS, l \in LevelSet, b \in BOOLEAN : AddComponent(k, l, b)
  \/ \E i \in 0..1 : RemoveComponent(i)
  \/ \E i \in 0..1, b \in BOOLEAN : SetComponentEnabled(i, b)
  \/ \E i \in 0..1, l \in LevelSet : UpdateComponentParams(i, l)
  \/ \E sn \in Snaps : ReplaceComponents(sn)
  \/ RoundTrip

SpecConfig == InitConfig /\ [][NextConfig]_vars

\* The generation loop and another thread's snapshots while the UI thread
\* replaces the component list and sets the globals, each method step by
\* step under the engine's lock.
NewList == <<LevelEntry("sine", TRUE, 1), LevelEntry("noise", TRUE, 1)>>
GlobalArgs == {<<{2}, {1}>>, <<{4}, {2}>>}

InitAtomic ==
  /\ RingInit /\ ThreadsInit
  /\ EngineInit /\ fs = 4 /\ chunk_size = 2 /\ GenLoopInit /\ LoopInit /\ UnitInit
  /\ components = <<1>> /\ heap = <<NewObject("sine", TRUE, 2)>>

NextAtomic ==
  \/ GenLoop
  \/ OnChunk
  \/ UiInLoop /\ Play
  \/ UiInLoop /\ GenStop
  \/ SnapshotComponents
  \/ UiInLoop /\ ReplaceLock(NewList)
  \/ ReplaceClear
  \/ ReplaceEntry
  \/ ReplaceUnlock
  \/ \E g \in GlobalArgs : UiInLoop /\ SetGlobalLock(g[1], g[2], {})
  \/ SetGlobalFs
  \/ SetGlobalChunk
  \/ SetGlobalClip

SpecAtomic == InitAtomic /\ [][NextAtomic]_vars

\* The parameter model under a thread that sets and a thread that takes
\* snapshots.
NextParams ==
  \/ \E v \in {{2}, {4}} : ParamsSet("fs", v)
  \/ \E v \in {1, 4} : ParamsSet("view_window_sec", v)
  \/ SnapLock
  \/ SnapCopy
  \/ SnapReturn

SpecParams == InitStop /\ [][NextParams]_vars

\* The clock under two advancing and reading threads and a resetting one.
NextClockLock ==
  \/ \E t \in ClockThreads, n \in AdvanceArgs : AdvanceLock(t, n)
  \/ \E t \in ClockThreads : AdvanceRead(t)
  \/ \E t \in ClockThreads : AdvanceWrite(t)
  \/ \E t \in ClockThreads : SampleIndex(t)
  \/ ClockReset

SpecClockLock == InitStop /\ [][NextClockLock]_vars

\* The generation loop feeding the ring buffer while the UI thread plays,
\* resets, sets the clip and stops the worker.  The resets stop once the ring
\* buffer has taken MaxSamples samples.
NextReset ==
  \/ GenLoop
  \/ OnChunk
  \/ UiInLoop /\ Play
  \/ UiInLoop /\ total < MaxSamples /\ Reset
  \/ UiInLoop /\ SetGlobal({}, {}, {1})
  \/ UiInLoop /\ GenStop

SpecReset == InitLoop /\ [][NextReset]_vars

\* Both worker loops while the UI thread sets the chunk length and the
\* analysis window to values below, within and beyond the limits.
BigFs == MAX_WAVELET_SAMPLES \div 2
WindowSecs == {0 - 1, 4}

NextClamp ==
  \/ GenLoop
  \/ WavLoop
  \/ OnChunk
  \/ UiInLoop /\ Play
  \/ \E c \in ChunkSet : UiInLoop /\ SetGlobal({}, {c}, {})
  \/ \E v \in {4, BigFs} : UiInLoop /\ ParamsSet("fs", {v})
  \/ \E w \in WindowSecs : UiInLoop /\ ParamsSet("view_window_sec", w)
  \/ UiInLoop /\ GenStop

SpecClamp == InitStop /\ [][NextClamp]_vars

\* One call of generate on a component of any kind, enabled or not, for any
\* length from 0 to MaxLen, start and rate.
MaxLen == 3
GenObjects ==
  {NewObject(k, b, 2) : k \in Kinds, b \in BOOLEAN}
    \cup {[NewObject("noise", b, 2) EXCEPT !.params.sigma = 5] : b \in BOOLEAN}
    \cup {PulseObject(k, b, r) : k \in BUILTIN_COMPONENTS \ Kinds, b \in BOOLEAN, r \in {0, 100}}
    \cup {NewObject("chirp", TRUE, 1)}

GenerateCall ==
  /\ gres = << >>
  /\ \E z \in NoiseDraws(garg.obj, garg.n) :
       gres' = <<Generate(garg.obj, garg.t0, garg.n, garg.fs, z)>>
  /\ UNCHANGED garg
  /\ UNCHANGED <<ringVars, appVars, parVars, clkVars, trVars, moreVars>>

InitGen ==
  /\ RingInit /\ ThreadsInit
  /\ EngineInit /\ fs = 4 /\ chunk_size = 2
  /\ NoComponents /\ GenInit /\ LoopInit
  /\ ParInit /\ ClkInit /\ TrInit /\ MoreInit
  /\ garg \in [obj : GenObjects, n : 0..MaxLen, fs : FsSet,
                t0 : {[num |-> k, den |-> r] : k \in 0..2, r \in FsSet}]
  /\ garg.t0.den = garg.fs
  /\ gres = << >>

NextGen == GenerateCall

SpecGen == InitGen /\ [][NextGen]_vars

\* One call of a built-in plugin's transform on a window of 0 to MinUsable
\* samples, all zero or not; level is n_freqs for the continuous transform
\* and maxlevel for the discrete one, whose other parameters select the mode,
\* the level of the packet tree and the nodes shown.
BuiltinIds == {"builtin:cwt_morlet", "builtin:dwt_wpt"}

InitTransform ==
  /\ RingInit /\ ThreadsInit
  /\ EngineInit /\ fs = 4 /\ chunk_size = 2
  /\ NoComponents /\ GenInit /\ LoopInit
  /\ ParInit /\ ClkInit /\ CmpInit /\ MoreInit
  /\ targ \in [plugin : BuiltinIds, n : 0..MinUsable, flat : BOOLEAN, level : 1..3,
               mode : {"WPT", "DWT"}, wpt_level : {2, 4}, show_approx : BOOLEAN,
               nodes : {{}, {0}, {1}}, select : {"all", "top_energy"},
               top_k : {0 - 1, 0, 8}]
  /\ tres = << >>

NextTransform == TransformCall

SpecTransform == InitTransform /\ [][NextTransform]_vars

\* Saved configurations loaded one after another.
NextPreset ==
  \/ \E sn \in ConfigLists : ReplaceComponents(sn)
  \/ LoadPresetFailed

SpecPreset == InitConfig /\ [][NextPreset]_vars

\* The registry alone: reloads over every content of plugins/wavelets.
InitPlug ==
  /\ RingInit /\ ThreadsInit
  /\ EngineInit /\ fs = 4 /\ chunk_size = 2
  /\ NoComponents /\ GenInit /\ LoopInit /\ UnitInit

NextPlug == ReloadAll

SpecPlug == InitPlug /\ [][NextPlug]_vars

\* The analysis loop while the UI thread changes the sample rate and takes
\* the chunks delivered to it.
NextRebuild ==
  \/ WavStart
  \/ WavLoopCheck
  \/ WavSnapshot
  \/ WavReadRing
  \/ WavGetLastRing
  \/ WavLookup
  \/ \E out \in TransformOutcomes : WavTransform(out)
  \/ WavPublish
  \/ WavExcept
  \/ WavSleep
  \/ WavStop
  \/ \E f \in FsSet : OnChunkRing(2, f)
  \/ upc = "idle" /\ OnGlobalChanged

SpecRebuild == InitWav /\ [][NextRebuild]_vars

\* A tone on its own: constructed with any smoothing constant, then edited,
\* switched and asked for chunks of 0 to 2 samples.
InitTone ==
  /\ RingInit /\ ThreadsInit
  /\ EngineInit /\ fs = 4 /\ chunk_size = 2
  /\ NoComponents /\ GenInit /\ LoopInit
  /\ ParInit /\ ClkInit /\ CmpInit /\ TrInit /\ RbInit /\ LkInit
  /\ \E T \in SmoothSet : tone = NewTone(ToneParams(T))
  /\ tgen = ToneIdle

NextTone ==
  \/ \E new \in ToneEdits : ToneUpdate(new)
  \/ \E b \in BOOLEAN : ToneSetEnabled(b)
  \/ \E n \in 0..2 : ToneGenerate(n, 4)

SpecTone == InitTone /\ [][NextTone]_vars

\* One call of generate on a Gaussian pulse train, single or repeating with
\* a period of 1/8 s or 1/2 s, for chunks of up to MaxLen samples.
InitGauss ==
  /\ RingInit /\ ThreadsInit
  /\ EngineInit /\ fs = 4 /\ chunk_size = 2
  /\ NoComponents /\ GenInit /\ LoopInit
  /\ ParInit /\ ClkInit /\ TrInit /\ MoreInit
  /\ garg \in [obj : {PulseObject("gauss_pulse", b, r) : b \in BOOLEAN, r \in {0, 25, 100}},
                n : 0..MaxLen, fs : FsSet,
                t0 : {[num |-> k, den |-> r] : k \in 0..2, r \in FsSet}]
  /\ garg.t0.den = garg.fs
  /\ gres = << >>

NextGauss == GenerateCall

SpecGauss == InitGauss /\ [][NextGauss]_vars

\* Both worker threads, each started (its start() slot queued) and kept
\* scheduled, while the UI thread plays, pauses, takes chunks and at some
\* moment closes the window.
NextClose ==
  \/ GenLoop
  \/ WavLoop
  \/ OnChunk
  \/ UiInLoop /\ Play
  \/ UiInLoop /\ Pause
  \/ upc = "idle" /\ CloseEvent

SpecClose ==
  /\ InitStop /\ [][NextClose]_vars
  /\ WF_vars(GenLoop) /\ WF_vars(WavLoop)

\* The generation loop while the UI thread presses START, again and again,
\* and takes the chunks delivered to it between its handlers.
NextStart ==
  \/ GenLoop
  \/ OnChunk
  \/ upc = "idle" /\ OnStart
  \/ UiInLoop /\ GenStop

SpecStart == InitLoop /\ [][NextStart]_vars

\* The three threads calling their methods in any order and interleaving,
\* as far as the mutexes are concerned, while the UI thread's
\* on_global_changed replaces the ring buffer.
NextLocks ==
  \/ \E t \in LockThreads, op \in LockOps : LockCall(t, op)
  \/ \E t \in LockThreads : LockStep(t)
  \/ lk[UI].op = "none" /\ OnGlobalChanged

SpecLocks == InitStop /\ [][NextLocks]_vars

\* ------------------------------------------------------------------ claims
\* The last min(k, min(Capacity, Len(h))) samples of history h, in arrival order.
ExpectedTail(h, k) ==
  LET m == Min(k, Min(Capacity, Len(h))) IN
  IF m <= 0 THEN << >> ELSE [i \in 1..m |-> h[Len(h) - m + i]]

\* The writer is inside append's or clear's locked section.
InAppend == upc \in {"A25", "A27", "A28", "A37", "A38", "A39", "A29"}
InClear == upc \in {"C15", "C16", "C17"}

\* The history as it will be once the writer's operation in progress is done.
HistAfter ==
  IF InAppend THEN hist \o ux ELSE IF InClear THEN << >> ELSE hist

\* C1: whatever was appended since construction or the last clear, get_last(k)
\* returns exactly the last min(k, filled) samples of that history, in arrival
\* order, with filled = min(capacity, appended); for every k, k = capacity
\* after the cursor has wrapped included.
C1_GetLastIsHistoryTail ==
  wpc = "R50" =>
    /\ rres = ExpectedTail(hist, rn)
    /\ filled = Min(Capacity, Len(hist))

\* C1 witness: a full window read after the cursor has wrapped (the result is
\* the tail of storage followed by its head).
C1_Witness ==
  /\ wpc = "R50" /\ rn = Capacity
  /\ filled = Capacity /\ write > 0
  /\ Len(hist) > Capacity
  /\ Len(rres) = Capacity

\* C2: when a batch of length >= capacity has been stored, get_last(capacity)
\* is exactly the last `capacity` elements of that batch, the cursor is 0 and
\* filled is capacity, whatever the ring held before.
C2_OverflowKeepsBatchTail ==
  (upc = "A29" /\ Len(ux) >= Capacity) =>
    /\ GetLast(buf, write, filled, Capacity)
         = [i \in 1..Capacity |-> ux[Len(ux) - Capacity + i]]
    /\ write = 0
    /\ filled = Capacity

\* C2 witness: an overflowing batch (longer than capacity) stored over earlier
\* history.
C2_Witness ==
  /\ upc = "A29" /\ Len(ux) > Capacity
  /\ Len(hist) > 0

\* C3: a get_last never overlaps a locked section of append or clear, and its
\* result is the tail of the history either before or after the writer's
\* concurrent operation, never of a half-applied one.
C3_GetLastAtomic ==
  /\ Cardinality(ringHolders) <= 1
  /\ wpc \in {"R44", "R50"} => ~(InAppend \/ InClear)
  /\ wpc = "R50" =>
       rres \in {ExpectedTail(hist, rn), ExpectedTail(HistAfter, rn)}

\* C3 witness: a read completes under the lock while an append is waiting for it.
C3_Witness ==
  /\ wpc = "R50" /\ upc = "A24"
  /\ Len(rres) > 0
  /\ ringHolders = {WAV}

\* The thread inside generate_chunk takes a step.
GenMoved == gpc' # gpc \/ loc' # loc

\* What a component in state o contributes at sample index k (time k / rate):
\* nothing when disabled, A * sin(2*pi*f*k/rate) for a tone, the mean for a
\* noise of sigma 0.
ExpectedSample(o, k, rate) ==
  IF ~o.enabled THEN 0
  ELSE IF o.kind = "sine"
       THEN o.params.amplitude * SinQuarter((4 * o.params.frequency * k) \div rate)
       ELSE o.params.mean

RECURSIVE ExpectedSumAt(_, _, _)
ExpectedSumAt(os, k, rate) ==
  IF os = << >> THEN 0
  ELSE ExpectedSample(Head(os), k, rate) + ExpectedSumAt(Tail(os), k, rate)

\* The chunk of n samples starting at time t0 = num / rate that components in
\* the states os add up to.
ExpectedChunk(os, t0, n, rate) ==
  [j \in 1..n |-> ExpectedSumAt(os, t0.num + j - 1, rate)]

\* C4: a generate_chunk that captured paused = true returns an empty sequence
\* at its next step and that step leaves the clock's sample_index as it is.
C4_PausedCallLeavesClock ==
  [][(gpc \in {"E123", "E130", "E133"} /\ cap.paused /\ GenMoved)
       => (samples' = samples /\ gpc' = "ret" /\ ret'.x = << >>)]_vars

\* C4 witness: a paused call has returned after the clock had advanced.
C4_Witness ==
  /\ gpc = "ret" /\ cap.paused
  /\ ret.x = << >> /\ samples > 0
  /\ ret.t0.num = samples

\* C5: a non-paused generate_chunk with configured length L computes start_time
\* as sample_index / sample_rate, returns exactly min(L, MAX_CHUNK) samples and
\* advances sample_index by the length of the chunk it returns.
C5_ClockAccounting ==
  [][/\ (gpc = "E123" /\ gpc' \in {"E130", "E133"})
          => loc'.t0 = [num |-> samples, den |-> cap.fs]
     /\ (gpc = "E133" /\ gpc' = "ret")
          => /\ Len(ret'.x) = Min(cap.n, MAX_CHUNK)
             /\ ret'.t0 = loc.t0
             /\ samples' = samples + Len(ret'.x)]_vars

\* C6: with the clip off, the chunk a non-paused generate_chunk returns is the
\* element-wise sum, over every component of the captured list, of what that
\* component generates for (start_time, n, sample_rate) in the state generate
\* found it in: zero for a disabled one, so all zeros when none is enabled.
C6_ChunkIsSumOfEnabled ==
  (gpc = "ret" /\ ~cap.paused /\ ~ClipOn(cap.clip)) =>
    /\ Len(loc.seen) = Len(cap.comps)
    /\ \A i \in 1..Len(cap.comps) : loc.seen[i].kind = heap[cap.comps[i]].kind
    /\ ret.x = ExpectedChunk(loc.seen, ret.t0, Len(ret.x), cap.fs)
    /\ (\A i \in 1..Len(loc.seen) : ~loc.seen[i].enabled)
         => ret.x = Zeros(Len(ret.x))

\* C6 witness: an enabled tone and a disabled noise summed into a chunk that
\* holds a non-zero sample, after an earlier chunk.
C6_Witness ==
  /\ gpc = "ret" /\ ~cap.paused
  /\ Len(loc.seen) = 2
  /\ \E i \in 1..2 : loc.seen[i].kind = "sine" /\ loc.seen[i].enabled
  /\ \E i \in 1..2 : loc.seen[i].kind = "noise" /\ ~loc.seen[i].enabled
  /\ \E j \in 1..Len(ret.x) : ret.x[j] # 0
  /\ ret.t0.num > 0

\* C7: with amplitude_clip = c > 0 every sample of a returned chunk lies in
\* [-c, c]; with amplitude_clip <= 0 the chunk is the unclipped sum.
C7_ClipBounds ==
  (gpc = "ret" /\ ~cap.paused) =>
    /\ cap.clip > 0 =>
         \A j \in 1..Len(ret.x) : 0 - cap.clip <= ret.x[j] /\ ret.x[j] <= cap.clip
    /\ cap.clip <= 0 =>
         ret.x = ExpectedChunk(loc.seen, ret.t0, Len(ret.x), cap.fs)

\* C7 witness: a tone of amplitude 2 clipped at 1 on its negative half-wave.
C7_Witness ==
  /\ gpc = "ret" /\ ~cap.paused
  /\ cap.clip = 1
  /\ loc.seen[1].params.amplitude = 2
  /\ \E j \in 1..Len(ret.x) :
       /\ ret.x[j] = 0 - 1
       /\ ExpectedSumAt(loc.seen, ret.t0.num + j - 1, cap.fs) = 0 - 2

\* C8: the chunk in flight is computed from the configuration captured under
\* the lock: what generate_chunk returns is the sum the captured components
\* give in the state they had at the capture, whatever is changed afterwards.
C8_InFlightIsolation ==
  (gpc = "ret" /\ ~cap.paused /\ ~ClipOn(cap.clip)) =>
    ret.x = ExpectedChunk(cap.snap, ret.t0, Len(ret.x), cap.fs)

\* The original reading of C9: whenever the engine is paused, a step of the
\* generation loop leaves the clock as it is and emits nothing but an empty
\* chunk.
C9_PausedEngineFrozen ==
  [][(paused /\ gpc' # gpc)
       => (samples' = samples
           /\ (chunkq' # chunkq => chunkq'[Len(chunkq')].x = << >>))]_vars

\* C9: an iteration of the generation loop that finds the engine paused, at
\* its is_paused check or at generate_chunk's capture, leaves the ring
\* buffer's contents, cursor and filled count and the clock's sample_index
\* unchanged, and what it emits, if anything, is an empty chunk; delivering an
\* empty chunk leaves the ring buffer's contents, cursor and filled count
\* unchanged.  (A chunk captured before pause() is still completed: it
\* advances the clock and is appended.)
C9_PausedIterationFrozen ==
  [][/\ (gpc = "L80" /\ paused /\ gpc' # gpc)
          => (gpc' = "L81" /\ UNCHANGED <<buf, write, filled, samples, chunkq>>)
     /\ (gpc = "L81" /\ gpc' # gpc)
          => (gpc' = "L75" /\ UNCHANGED <<buf, write, filled, samples, chunkq>>)
     /\ (gpc \in {"E123", "E130", "E133", "ret"} /\ cap.paused /\ gpc' # gpc)
          => /\ UNCHANGED <<buf, write, filled, samples>>
             /\ gpc' \in {"ret", "L87"}
             /\ chunkq' # chunkq
                  => chunkq' = Append(chunkq, [x |-> << >>, t0 |-> ret.t0,
                                               fs |-> lg.fs])
     /\ (chunkq # << >> /\ chunkq' = Tail(chunkq) /\ Head(chunkq).x = << >>)
          => (UNCHANGED <<buf, write, filled>> /\ latest_chunk' = << >>)
    ]_vars

\* C9 witness: pause() landed between the loop's is_paused check and the
\* capture, after data had reached the ring; the empty chunk the iteration
\* emitted has been delivered.
C9_Witness ==
  /\ gpc = "L87" /\ paused
  /\ chunkq = << >> /\ latest_chunk = << >>
  /\ filled > 0 /\ samples > 0

C11_OnlyStopEndsLoop ==
  [][/\ (gpc' # gpc /\ gpc' \in {"L89", "raised"}) => ~gen_running
     /\ (wpc' # wpc /\ wpc' \in {"done", "raised"}) => ~wav_running]_vars

C13_MissingPlugin ==
  [][/\ (wpc = "W124" /\ wpc' # wpc /\ wsnap.wavelet_plugin_id \notin DOMAIN registry)
          => /\ wpc' = "W135"
             /\ wpub' = <<"status: plugin not found">>
     /\ (wpc = "W124" /\ wpc' # wpc /\ wsnap.wavelet_plugin_id \in DOMAIN registry)
          => (wpc' = "W130" /\ wpub' = << >>)
     /\ (wpc = "W130" /\ wpc' = "W131") => wpub' = << >>
     /\ (wpc = "W131" /\ wpc' # wpc)
          => (wpc' = "W135" /\ wpub' = <<"result">>)
     /\ (wpc = "W135" /\ wpc' # wpc) => (wpc' = "W114" /\ wpub' = wpub)
    ]_vars

\* C13 witness: a plugin that was not in the registry has been reported and
\* the loop has gone on to its next check.
C13_Witness ==
  /\ wpc = "W114"
  /\ wpub = <<"status: plugin not found">>
  /\ wav_running

\* The candidates of the reload in hand that are well-formed (they load), the
\* ids a candidate is stored under, the candidates that store an entry (the
\* well-formed ones, and one whose declared id cannot be hashed, which stores
\* its alias before line 74 raises), and whether a candidate handled later in
\* the same reload stores under one of the ids of candidate i.
Loaded(i) == Found(sysmods, pcands[i])
WellFormed(i) == Loaded(i).fault = "none"
IdDeclared(c) == IF c.declared = {} THEN c.lookup ELSE CHOOSE d \in c.declared : TRUE
KeysOf(c) == {c.lookup, IdDeclared(c)}
StoresEntry(i) == Loaded(i).fault \in {"none", "bad_id"}
StoredKeys(i) == IF WellFormed(i) THEN KeysOf(Loaded(i)) ELSE {pcands[i].lookup}
LaterUses(i) ==
  \E j \in (i + 1)..Len(pcands) :
    StoresEntry(j) /\ StoredKeys(j) \cap KeysOf(Loaded(i)) # {}
RegisteredObjs == {registry[k].obj : k \in DOMAIN registry}

\* C14: when reload_all has ended, it has returned, and every candidate has
\* been handled in order (a log record each: an error for one that failed, an
\* info for one that loaded); no key of the registry holds a candidate that
\* failed; every well-formed candidate whose ids no later candidate uses is
\* in the registry under its lookup id; and with one well-formed and one
\* failing external module exactly one external plugin is registered.
C14_RegistryResilience ==
  /\ ppc # "raised"
  /\ ppc = "done" =>
       /\ Len(plog) = Len(pcands)
       /\ \A i \in 1..Len(pcands) :
            /\ plog[i].mod = pcands[i].mod
            /\ plog[i].level = (IF WellFormed(i) THEN "info" ELSE "error")
            /\ ~WellFormed(i) => pcands[i].mod \notin RegisteredObjs
            /\ (WellFormed(i) /\ ~LaterUses(i))
                 => /\ pcands[i].lookup \in DOMAIN registry
                    /\ registry[pcands[i].lookup].obj = pcands[i].mod
       /\ (Len(pcands) = 4 /\ WellFormed(3) # WellFormed(4))
            => Cardinality(RegisteredObjs \ {BuiltinCands[1].mod, BuiltinCands[2].mod}) = 1

\* The original reading of C15: after reload_all, every loaded plugin whose
\* declared id differs from its lookup id is returned by get under both ids,
\* with the declared id and one and the same plugin object; a plugin that
\* declares no id is returned under its lookup id.
C15_AliasAlways ==
  ppc = "done" =>
    \A i \in 1..Len(pcands) :
      WellFormed(i) =>
        LET c == Loaded(i) IN
        /\ GetWavelet(registry, c.lookup) = {[id |-> IdDeclared(c), obj |-> c.mod]}
        /\ GetWavelet(registry, IdDeclared(c)) = {[id |-> IdDeclared(c), obj |-> c.mod]}

\* C15: the same, for every loaded plugin under none of whose ids a module
\* handled later in the same reload stores an entry.
C15_AliasUnlessReused ==
  ppc = "done" =>
    \A i \in 1..Len(pcands) :
      (WellFormed(i) /\ ~LaterUses(i)) =>
        LET c == Loaded(i) IN
        /\ GetWavelet(registry, c.lookup) = {[id |-> IdDeclared(c), obj |-> c.mod]}
        /\ GetWavelet(registry, IdDeclared(c)) = {[id |-> IdDeclared(c), obj |-> c.mod]}

\* C15 witness: a plugin that declares an id other than its lookup id has been
\* loaded, followed by another plugin, and is registered under both ids.
C15_Witness ==
  /\ ppc = "done" /\ Len(pcands) = 4
  /\ WellFormed(3) /\ WellFormed(4) /\ ~LaterUses(3)
  /\ Loaded(3).declared = {"my:a"}
  /\ {"my:a", pcands[3].lookup} \subseteq DOMAIN registry

\* The engine's components as values, in order.
ComponentsNow == [i \in 1..Len(components) |-> heap[components[i]]]
ComponentsNext == [i \in 1..Len(components') |-> heap'[components'[i]]]

\* C16: replace_components(snapshot_components()) leaves the engine with the
\* same components in the same order (kind, enabled flag, parameter values),
\* raises nothing, and the snapshot taken after it equals the one before.
C16_ConfigRoundTrip ==
  [][RoundTrip
       => /\ ComponentsNext = ComponentsNow
          /\ SnapshotOf(components', heap') = SnapshotOf(components, heap)
          /\ epc' = "idle"]_vars

\* C16 witness: an engine holding a disabled pulse train and a tone whose
\* parameters were edited, as a round trip leaves it.
C16_Witness ==
  /\ Len(components) = 2
  /\ ~heap[components[1]].enabled /\ heap[components[1]].kind = "gauss_pulse"
  /\ heap[components[2]].kind = "sine" /\ heap[components[2]].params.amplitude = 2
  /\ snapres = << >> /\ epc = "idle" /\ Len(heap) = 2 /\ components = <<1, 2>>

\* What a list of mappings asks for: the entries of known kind, in order,
\* each with its own parameters, the kind's default for every schema key it
\* lacks, and enabled unless it says otherwise.
IsMapping(en) == en.shape = "ok"
IsKnown(en) == en.type \in BUILTIN_COMPONENTS
WantedObject(en) ==
  [kind |-> en.type,
   enabled |-> (en.enabled # {FALSE}),
   params |-> [k \in (DOMAIN en.params) \cup SchemaKeys(en.type) |->
                 IF k \in DOMAIN en.params THEN en.params[k]
                 ELSE SchemaDefault(en.type, k)]]
WantedFrom(list) ==
  LET kept == SelectSeq(list, LAMBDA en : IsMapping(en) /\ IsKnown(en))
  IN [i \in 1..Len(kept) |-> WantedObject(kept[i])]
AllMappings(list) == \A i \in 1..Len(list) : IsMapping(list[i])

\* The entries of a list whose type is one of the five kinds, in list order.
OfKnownKind(list) == SelectSeq(list, LAMBDA en : en.type \in BUILTIN_COMPONENTS)

\* Component o answers entry en: it is of the entry's kind; it is disabled
\* exactly when the entry carries enabled = false; it has every parameter of
\* the entry with the entry's value, every other key of the kind's schema
\* with the schema's default, and no further key.
Answers(o, en) ==
  /\ o.kind = en.type
  /\ (en.enabled = {} => o.enabled)
  /\ (en.enabled # {} => o.enabled = ValueOf(en.enabled))
  /\ \A k \in DOMAIN en.params : k \in DOMAIN o.params /\ o.params[k] = en.params[k]
  /\ \A k \in SchemaKeys(en.type) \ DOMAIN en.params :
        k \in DOMAIN o.params /\ o.params[k] = SchemaDefault(en.type, k)
  /\ DOMAIN o.params \subseteq (DOMAIN en.params) \cup SchemaKeys(en.type)

\* C17: after replace_components(list), for a list of mappings, the engine's
\* components are exactly the entries of known kind, in list order, each with
\* the entry's parameters plus the schema default of every missing key, and
\* enabled when the entry has no enabled flag.
C17_ReplaceContent ==
  [][\A sn \in ConfigLists :
       (AllMappings(sn) /\ ReplaceComponents(sn))
         => /\ epc' = "idle"
            /\ Len(components') = Len(OfKnownKind(sn))
            /\ \A i \in 1..Len(components') :
                  Answers(heap'[components'[i]], OfKnownKind(sn)[i])]_vars

\* C17 witness: a list of two entries that lack their enabled flag and some
\* of their parameters has been installed: a tone, enabled, with the
\* amplitude given and the default frequency; and a chirp, enabled, with the
\* frequencies given and the default amplitude and duration.
C17_Witness ==
  /\ Len(components) = 2 /\ epc = "idle"
  /\ heap[components[1]].kind = "sine" /\ heap[components[1]].enabled
  /\ heap[components[1]].params.amplitude = 2
  /\ heap[components[1]].params.frequency = 5
  /\ heap[components[2]].kind = "chirp" /\ heap[components[2]].enabled
  /\ heap[components[2]].params.f0 = 2
  /\ heap[components[2]].params.amplitude = 4
  /\ heap[components[2]].params.duration_sec = 400

\* The same with an entry whose params value is not a mapping given the
\* defaults instead of being skipped.
WantedDefaulted(list) ==
  LET kept == SelectSeq(list, LAMBDA en : en.shape # "not_mapping" /\ IsKnown(en))
  IN [i \in 1..Len(kept) |-> WantedObject(kept[i])]

\* C19: loading a list with a malformed entry installs every well-formed
\* entry of known kind, the malformed one being skipped or given defaults.
C19_MalformedEntryRecovered ==
  [][\A sn \in ConfigLists :
       ReplaceComponents(sn)
         => ComponentsNext \in {WantedFrom(sn), WantedDefaulted(sn)}]_vars

\* The component lists a reader may see around a replace_components: while
\* the call is in progress, the list it began with and the list it builds;
\* otherwise the engine's list.
InReplace == epc \in {"X99", "X100"}
WholeLists ==
  IF InReplace THEN {earg.old, WantedFrom(earg.all)} ELSE {ComponentsNow}

\* C18: the component list a generate_chunk captures, and the one a
\* snapshot_components returns, while replace_components runs in another
\* thread, is the complete list from before the call or the complete list it
\* installs.
C18_ReplaceAtomic ==
  [][/\ (gpc = "E116" /\ gpc' = "E123") => cap'.snap \in WholeLists
     /\ (snapres' # snapres)
          => snapres' \in {[i \in 1..Len(l) |-> ObjectEntry(l[i])] : l \in WholeLists}
    ]_vars

\* C18 witness: a generate_chunk is waiting to capture while
\* replace_components has cleared the list and rebuilt half of it.
C18_Witness ==
  /\ gpc = "E116"
  /\ epc = "X100" /\ Len(components) = 1 /\ Len(earg.rest) = 1

\* The (fs, chunk_size) pairs in effect around a set_global: while the call
\* is in progress, the pair before it and the pair after it; otherwise the
\* engine's pair.
InSetGlobal == epc \in {"G28", "G30", "G32"}
PairAfter(a) ==
  [fs |-> IF a.f = {} THEN a.pre.fs ELSE CHOOSE v \in a.f : TRUE,
   n |-> IF a.c = {} THEN a.pre.n ELSE CHOOSE v \in a.c : TRUE]
WholePairs ==
  IF InSetGlobal THEN {earg.pre, PairAfter(earg)}
  ELSE {[fs |-> fs, n |-> chunk_size]}

\* C20: the pair get_global returns is the pair in effect before or after
\* the set_global in progress, never one field of each.
C20_GetGlobalNeverTears ==
  [][(gpc = "L76" /\ gpc' # gpc) => lg' \in WholePairs]_vars

\* C20 witness: the generation loop is about to call get_global while
\* set_global has stored the new fs and not yet the new chunk_size.
C20_Witness ==
  /\ gpc = "L76"
  /\ epc = "G30"
  /\ fs # earg.pre.fs /\ chunk_size = earg.pre.n
  /\ PairAfter(earg).n # chunk_size

\* What the holders of the returned dicts read in them, oldest first.
Held == [i \in 1..Len(sret) |-> SnapValue(sret[i])]

\* C21: the dict snapshot() returns is the whole mapping as it stands when
\* the call returns, no set() having acted since the call took the lock, and
\* no later step changes what the holder of a returned dict reads in it.
C21_SnapshotIsolation ==
  [][/\ SnapReturn => Held'[Len(Held')] = params
     /\ (spc = "S25" /\ UNCHANGED spc) => (SnapCopy \/ UNCHANGED params)
     /\ Len(Held') >= Len(Held) /\ SubSeq(Held', 1, Len(Held)) = Held
    ]_vars

\* C21 witness: two snapshots were returned, with a set() between them and a
\* set() after the second; each still holds what it held when returned.
C21_Witness ==
  /\ Len(sret) = 2
  /\ SnapValue(sret[1]).fs = {4} /\ SnapValue(sret[2]).fs = {2}
  /\ params.fs = {4} /\ params.view_window_sec = 1

\* C22: every advance(n) adds n to the count in one piece, so that the count
\* is the sum of the arguments of the advance calls returned since the last
\* reset (0 after a reset); no other thread changes the count while a
\* thread is inside advance, and sample_index returns that count.
C22_ClockAtomic ==
  [][/\ samples' = csum'
     /\ \A t \in ClockThreads :
          /\ AdvanceWrite(t) => samples' = samples + cloc[t].n
          /\ (cpc[t] # "idle" /\ cpc'[t] # "idle") => samples' = samples
          /\ SampleIndex(t) => cloc'[t].ret = csum
     /\ ClockReset => samples' = 0
    ]_vars

\* C22 witness: advance calls that add up to 2 have returned, a
\* sample_index of one thread has read 2, the same thread had read 3 before a
\* reset, and an advance(2) of the other thread has read the count and not
\* yet stored the sum.
C22_Witness ==
  /\ samples = 2 /\ csum = 2
  /\ cloc[GEN].ret = 2 /\ cloc[T2].ret = 3
  /\ cpc[T2] = "K18w" /\ cloc[T2].n = 2 /\ cloc[T2].tmp = 2

\* C23: SignalEngine.reset() sets the clock's sample count to 0 and leaves
\* the component list, every component's state, the paused flag, fs,
\* chunk_size, amplitude_clip and the ring buffer as they were.
C23_ResetFrame ==
  [][Reset =>
       /\ samples' = 0
       /\ UNCHANGED <<components, heap, paused, fs, chunk_size, amplitude_clip>>
       /\ UNCHANGED <<buf, write, filled>>]_vars

\* C23 witness: the count is 0 again after chunks were generated and stored
\* in the ring buffer; the engine is still playing, with its clip set and
\* its component in place.
C23_Witness ==
  /\ samples = 0 /\ total > 0 /\ filled > 0
  /\ ~paused /\ amplitude_clip = 1
  /\ components = <<1>> /\ heap[1] = NewObject("sine", TRUE, 2)

\* C24: the window length the analysis worker asks the ring buffer for is at
\* least 16 and at most MAX_WAVELET_SAMPLES, and the chunk generate_chunk
\* returns is at most MAX_CHUNK samples long, whatever values are configured.
C24_ResourceClamps ==
  /\ wpc \in {"R43", "R44", "R50"} => (MinWindow <= rn /\ rn <= MAX_WAVELET_SAMPLES)
  /\ Len(ret.x) <= MAX_CHUNK
  /\ \A i \in 1..Len(chunkq) : Len(chunkq[i].x) <= MAX_CHUNK

\* C24 witness: with fs times the window beyond the maximum the worker has
\* asked for MAX_WAVELET_SAMPLES samples, and with chunk_size beyond
\* MAX_CHUNK a chunk of MAX_CHUNK samples has been returned.
C24_Witness ==
  /\ wpc = "R44" /\ rn = MAX_WAVELET_SAMPLES
  /\ wsnap.view_window_sec * ValueOf(wsnap.fs) > MAX_WAVELET_SAMPLES
  /\ chunk_size > MAX_CHUNK /\ Len(ret.x) = MAX_CHUNK

\* C25: generate(t0, n, fs) of a noise, tone, rectangular pulse train,
\* Gaussian pulse train or chirp returns exactly n samples for every n >= 0,
\* all of them zero when the component is disabled.
C25_GenerateContract ==
  gres # << >> =>
    /\ Len(gres[1]) = garg.n
    /\ ~garg.obj.enabled => gres[1] = [j \in 1..garg.n |-> 0]

\* C25 witness: a disabled chirp has returned MaxLen zeros.
C25_Witness ==
  /\ gres # << >>
  /\ garg.obj.kind = "chirp" /\ ~garg.obj.enabled /\ garg.n = MaxLen
  /\ gres[1] = [j \in 1..MaxLen |-> 0]

\* C26: transform of either built-in plugin on a window shorter than the
\* minimum usable length, the empty window included, raises nothing and
\* returns an image of one row, all zero.
C26_DegenerateInputTrivial ==
  (tres # << >> /\ targ.n < MinUsable)
    => (~tres[1].raised /\ tres[1].rows = 1 /\ tres[1].zero)

\* The ranges of the ring buffer's cursor and filled count.
RingRanges ==
  /\ 0 <= write /\ write < Capacity
  /\ 0 <= filled /\ filled <= Capacity

\* C27: in every state 0 <= cursor < capacity and 0 <= filled <= capacity;
\* an append of len samples, 0 < len < capacity, sets the cursor to
\* (cursor + len) mod capacity and filled to min(capacity, filled + len), the
\* cursor and the count being those the call found.
C27_RingInvariant ==
  [][/\ RingRanges /\ RingRanges'
     /\ AppendCursor =>
          /\ 0 < Len(ux) /\ Len(ux) < Capacity
          /\ write' = (write + Len(ux)) % Capacity
     /\ AppendFilled => filled' = Min(Capacity, filled + Len(ux))
     /\ (upc \in {"A24", "A25", "A37", "A38"} /\ ~AppendCursor /\ ~AppendOverflowCursor)
          => UNCHANGED <<write, filled>>
    ]_vars

\* C27 witness: an append of 2 samples at cursor Capacity - 1 has wrapped the
\* cursor to 1 and left the buffer full.
C27_Witness ==
  /\ upc = "A29" /\ Len(ux) = 2
  /\ write = 1 /\ filled = Capacity

\* C28: clear() leaves cursor 0 and filled 0 whatever the state before; every
\* get_last from then until an append of at least one sample has stored it
\* returns the empty sequence; and get_last(n) with n <= 0 always does.
C28_ClearEmpties ==
  [][/\ ClearFilled => (write' = 0 /\ filled' = 0)
     /\ (GetLastRead /\ hist = << >> /\ upc \notin {"A27", "A28", "A37", "A38", "A39", "A29"})
          => rres' = << >>
     /\ (GetLastRead /\ rn <= 0) => rres' = << >>
    ]_vars

\* C28 witness: samples were appended, the buffer was cleared, and a
\* get_last for Capacity samples has come back empty.
C28_Witness ==
  /\ wpc = "R50" /\ rn = Capacity /\ rres = << >>
  /\ total > 0 /\ hist = << >> /\ upc = "idle"
  /\ write = 0 /\ filled = 0

\* C29: between two resets the clock's sample count is never negative and
\* never decreases, whatever generate_chunk, set_global (with any
\* chunk_size), play and pause calls are made.
C29_ClockMonotonic ==
  [][~Reset => (samples' >= samples /\ samples' >= 0)]_vars

\* The candidates of the reload in hand that loaded, up to candidate n.
LoadedUpTo(n) == {i \in 1..n : i <= Len(pcands) /\ WellFormed(i)}

\* C30: after reload_all has returned, the plugins of the registry are
\* exactly the candidates that loaded during this call, and no id holds a
\* module that failed to load in this call.
C30_ExactlyLoaded ==
  ppc = "done" =>
    RegisteredObjs = {pcands[i].mod : i \in LoadedUpTo(Len(pcands))}

\* C31: a get_wavelet that the analysis worker issues for the first built-in,
\* which every reload_all registers, never answers None, whatever the UI
\* thread's reload_all is doing at that moment.
C31_LookupNeverAbsent ==
  [][(WavLookup /\ wsnap.wavelet_plugin_id = "builtin:cwt_morlet")
       => winfo' # {}]_vars

\* The buffer of the last change of rate that has ended: the window's, but
\* for the moment between lines 752 and 754 of a change in progress, when it
\* is the buffer made before the window's.
LastFinished == IF hpc = "H754" THEN mw_ring - 1 ELSE mw_ring

C32_StaleRead ==
  /\ wpc = "W124" /\ hpc = "idle" /\ wring # mw_ring /\ rres # << >>

Smoothed ==
  LET T == tone.params.smooth_ms
      n == tgen.n
      rate == tgen.rate
  IN \A k \in SmoothKeys :
       LET c == tgen.pre[k]
           t == tone.target[k]
           c1 == tone.cur[k]
       IN IF T <= 0 \/ 1000 * n >= rate * T
          THEN c1 = t
          ELSE /\ (c1 - c) * rate * T = 1000 * n * (t - c)
               /\ Min(c, t) <= c1 /\ c1 <= Max(c, t)

CentresInChunk(p, t0, n, rate) ==
  LET from == (TicksPerSec * t0.num) \div t0.den
      to == from + (TicksPerSec * n) \div rate
  IN {c \in from..(to - 1) :
        c >= 0 /\ (c - p.center_time_sec) % p.repetition_period_sec = 0}

\* C34: a generate of an enabled Gaussian pulse train with a repetition period
\* above 0 enumerates at most five centres, and every repetition centre that
\* lies in the requested chunk is among them.
C34_CentresCoverChunk ==
  (gres # << >> /\ garg.obj.enabled /\ garg.obj.params.repetition_period_sec > 0)
    => LET cs == GaussCenters(garg.obj.params, garg.t0, garg.n, garg.fs)
       IN /\ Len(cs) <= 5
          /\ CentresInChunk(garg.obj.params, garg.t0, garg.n, garg.fs)
               \subseteq {cs[i] : i \in 1..Len(cs)}

\* The generation loop stands at line 75 with its flag set and the next
\* iteration outside the range of the clock and of the queue that the model
\* follows: the one place where a loop that has not ended takes no step here.
GenOutOfRange ==
  gpc = "L75" /\ GenKeepsRunning /\ ~(CallAllowed /\ Len(chunkq) < MaxQueue)

\* C35: once closeEvent has called stop() on both workers, whose threads were
\* started before (their start() slots queued or running), each worker's
\* loop eventually ends.  A generation loop that has run out of the model's
\* range is not counted as one that goes on for ever: only a loop that keeps
\* taking steps is.
C35_StopNeverLost ==
  (hpc = "closed")
    ~> ((gpc \in {"done", "raised"} \/ GenOutOfRange) /\ wpc \in {"done", "raised"})

\* C36: a generate_chunk that read a clock above 0 and, at its advance, finds
\* the clock at 0 was in flight when reset() returned; the next call, the
\* first to start after that reset, takes its start time from the clock this
\* advance leaves, which therefore is 0.
C36_ResetRestartsTime ==
  [][(gpc = "E133" /\ gpc' = "ret" /\ loc.t0.num > 0 /\ samples = 0)
       => samples' = 0]_vars

\* C37: the first chunk with samples that on_chunk appends to a ring buffer
\* holding no history (cleared by on_start, or never filled) was generated
\* after the clock's reset: its start time is 0.
C37_CleanHistory ==
  [][(OnChunkStore /\ hist = << >> /\ Head(chunkq).x # << >>)
       => Head(chunkq).t0.num = 0]_vars

\* C38: the rate the generation loop publishes with a chunk (the fs of its
\* get_global) is the rate generate_chunk captured and made the chunk with.
C38_PublishedRate ==
  [][(gpc = "ret" /\ gpc' = "L87") => cap.fs = lg.fs]_vars

\* The mutexes a thread holds; whether it stands before a `with` whose mutex
\* another thread holds; and whether the thread it waits for can go on, at
\* once or after the one that thread waits for.
HeldBy(t) == {m \in Mutexes : t \in HoldersOf(m)}
Waiting(t) == EventOf(t).do = "acq" /\ HoldersOf(EventOf(t).mutex) # {}
WillBeServed(t) ==
  \E u \in HoldersOf(EventOf(t).mutex) \ {t} :
    \/ ~Waiting(u)
    \/ \E v \in HoldersOf(EventOf(u).mutex) \ {t, u} : ~Waiting(v)

\* C39: with the three threads calling their methods in any interleaving
\* and the ring buffer replaced at any moment, a mutex has at most one holder; a thread that waits for a mutex waits for a
\* thread that can go on (or that waits for one that can), so no set of
\* threads waits for each other; a thread entering the engine's, the ring's
\* or the parameters' mutex holds no mutex, and one entering the clock's holds
\* none or the engine's only; and the change notification of set is emitted
\* by a thread that holds no mutex.
C39_NoDeadlock ==
  /\ \A m \in Mutexes : Cardinality(HoldersOf(m)) <= 1
  /\ \A t \in LockThreads :
       /\ Waiting(t) => WillBeServed(t)
       /\ EventOf(t).do = "acq" =>
            HeldBy(t) \subseteq (IF EventOf(t).mutex.of = "clock"
                                 THEN {Mutex("engine", 0)} ELSE {})
       /\ EventOf(t).do = "emit" => HeldBy(t) = {}

\* C39 witness: the UI thread, inside reset with the engine's mutex, waits
\* for the clock's mutex, which the generation thread holds inside advance,
\* while the analysis thread, inside a get_last it called before the buffer
\* was replaced, holds the mutex of the buffer replaced.
C39_Witness ==
  /\ elock = {UI} /\ clock_lock = {GEN}
  /\ Len(rings) = 2 /\ mw_ring = 2 /\ rings[1].lock = {WAV} /\ rings[2].lock = {}
  /\ lk[UI].op = "reset" /\ Waiting(UI)
  /\ lk[GEN].op = "generate_chunk" /\ lk[GEN].at = 6

\* list_wavelets, line 80: list(self.wavelet_plugins.values()), one entry for
\* every key of the dict, as the bag of the listed infos.
ListWavelets(reg) ==
  [v \in {reg[k] : k \in DOMAIN reg} |->
     Cardinality({k \in DOMAIN reg : reg[k] = v})]

\* The ids of the listed entries, each with the number of entries carrying it.
ListedIds(reg) ==
  [id \in {reg[k].id : k \in DOMAIN reg} |->
     Cardinality({k \in DOMAIN reg : reg[k].id = id})]

\* C40: when reload_all has returned, list_wavelets has exactly one entry for
\* every plugin that loaded: no two listed entries carry the same id, also
\* when a plugin's declared id differs from the id it was located by.
C40_ListNoDuplicates ==
  ppc = "done" =>
    /\ \A v \in DOMAIN ListWavelets(registry) : ListWavelets(registry)[v] = 1
    /\ \A id \in DOMAIN ListedIds(registry) : ListedIds(registry)[id] = 1

=============================================================================
